---- MODULE Spec2Model ----
(***************************************************************************)
(* Review-Pilot: the resilient Copilot client (src/utils/copilot.js) and   *)
(* the finding aggregation pipeline (src/linters/smart-linter.js with the  *)
(* plugin loader).                                                         *)
(*                                                                         *)
(* Strings are sequences of one-character strings, so that trim() and      *)
(* slice() are computed and not assumed.  One action is one event-loop     *)
(* task: the synchronous part of a call, the completion callback of an     *)
(* execFile, or a backoff timer.  Promise continuations (microtasks) run   *)
(* before the next task; MicrotaskPending gives them that priority.        *)
(***************************************************************************)
EXTENDS Integers, Sequences, FiniteSets, TLC

VARIABLES
    copilotAvailable,     \* copilot.js:5   "null" | "true" | "false"
    sessionCache,         \* copilot.js:8   cache key -> trimmed response
    consecutiveFailures,  \* copilot.js:11
    circuitOpen,          \* copilot.js:13
    calls,                \* the askCopilot invocations in flight, by slot
    batch,                \* the askCopilotBatch invocation in progress
    warnings,             \* logger.warn messages emitted, by kind
    last,                 \* the askCopilot invocation that returned last
    hist,                 \* what the calls have returned so far (observation only)
    input,                \* analyze: files, plugins, ML options, external outcomes
    run,                  \* analyze: the invocation in progress
    outputs               \* analyze: what the finished invocations returned

clientVars == <<copilotAvailable, sessionCache, consecutiveFailures, circuitOpen,
                calls, batch, warnings, last, hist>>

analyzeVars == <<input, run, outputs>>

vars == <<clientVars, analyzeVars>>

-----------------------------------------------------------------------------
(* Bounds of the model *)

MaxRetries == 1
MaxConcurrency == 2

(* Program constants *)

CIRCUIT_BREAKER_THRESHOLD == 3
DefaultRetries == 3
CacheKeyLen == 200
BackoffBaseMs == 1000

-----------------------------------------------------------------------------
(* Strings *)

Null == <<"<null>">>

IsSpace(ch) == ch \in {" ", "\n", "\t"}

RECURSIVE TrimStart(_)
TrimStart(s) ==
    IF s # <<>> /\ IsSpace(Head(s)) THEN TrimStart(Tail(s)) ELSE s

RECURSIVE TrimEnd(_)
TrimEnd(s) ==
    IF s # <<>> /\ IsSpace(s[Len(s)]) THEN TrimEnd(SubSeq(s, 1, Len(s) - 1)) ELSE s

Trim(s) == TrimEnd(TrimStart(s))

Slice(s, n) == SubSeq(s, 1, IF n < Len(s) THEN n ELSE Len(s))

-----------------------------------------------------------------------------
(* Inputs of the client *)

\* A short prompt with surrounding blanks, and two prompts
\* longer than the cache key that differ only after its last character.
PBlank == <<" ", "a", " ">>
PLongX == [i \in 1..CacheKeyLen |-> "p"] \o <<"x">>
PLongY == [i \in 1..CacheKeyLen |-> "p"] \o <<"y">>

Prompts == {PBlank, PLongX, PLongY}

\* What the external process may print on success.
RawResponses == {<<"o", "k">>, <<" ", "n", "o", "\n">>}

\* What execFile may fail with: error code, killed flag (set by the timeout),
\* and whether the error message contains the words "not found".
ErrEnoent   == [code |-> "ENOENT", killed |-> FALSE, msgNotFound |-> FALSE]
ErrTimeout  == [code |-> "none", killed |-> TRUE, msgNotFound |-> FALSE]
ErrTimeoutNF == [code |-> "none", killed |-> TRUE, msgNotFound |-> TRUE]
ErrGeneric  == [code |-> "none", killed |-> FALSE, msgNotFound |-> FALSE]

Outcomes == [ok : {TRUE}, stdout : RawResponses] \cup [ok : {FALSE}, err : {ErrEnoent, ErrTimeout, ErrTimeoutNF, ErrGeneric}]

RetryChoices == (0..MaxRetries) \cup {DefaultRetries}

\* Batch requests: with a key, and without one (key <<>>: the prompt is the key).
Requests == {[key |-> <<"k">>, prompt |-> PLongX],
             [key |-> <<>>, prompt |-> PLongY]}

MaxBatch == 2
BatchInputs == UNION {[1..n -> Requests] : n \in 0..MaxBatch}

Slots == 1..MaxConcurrency

-----------------------------------------------------------------------------
(* Pure helpers of copilot.js *)

\* copilot.js:47  prompt.trim().slice(0, 200)
CacheKey(prompt) == Slice(Trim(prompt), CacheKeyLen)

\* copilot.js:196-198
isNotFoundError(err) == err.code = "ENOENT" \/ err.msgNotFound

BackoffLinear(attempt) == (attempt + 1) * BackoffBaseMs

\* copilot.js:79 and 91  Math.pow(2, attempt) * 1000
Backoff(attempt) == (2 ^ attempt) * BackoffBaseMs

recordFailureOpenEarly(failures, open) == TRUE

recordFailureOpenLate(failures, open) ==
    IF failures + 1 > CIRCUIT_BREAKER_THRESHOLD THEN TRUE ELSE open

recordFailureOpenExact(failures, open) ==
    failures + 1 = CIRCUIT_BREAKER_THRESHOLD

\* copilot.js:176-178: the breaker flag after recordFailure, given the counter
\* before the increment and the flag before the call.
recordFailureOpen(failures, open) ==
    IF failures + 1 >= CIRCUIT_BREAKER_THRESHOLD THEN TRUE ELSE open

SuccessValueRaw(stdout) == stdout

\* copilot.js:62-64: what a successful attempt stores and returns.
SuccessValue(stdout) == Trim(stdout)

\* copilot.js:116 and 123  r.key || r.prompt
RequestKey(req) == IF req.key # <<>> THEN req.key ELSE req.prompt

\* The cache lookup ahead of the two tests.
ShortCircuitCacheFirst(prompt) ==
    IF CacheKey(prompt) \in DOMAIN sessionCache THEN "cache"
    ELSE IF copilotAvailable = "false" THEN "disabled"
    ELSE IF circuitOpen THEN "open"
    ELSE "miss"

ShortCircuitNoCache(prompt) ==
    IF copilotAvailable = "false" THEN "disabled"
    ELSE IF circuitOpen THEN "open"
    ELSE "miss"

\* copilot.js:43-51: how the synchronous part of askCopilot ends.
ShortCircuit(prompt) ==
    IF copilotAvailable = "false" THEN "disabled"
    ELSE IF circuitOpen THEN "open"
    ELSE IF CacheKey(prompt) \in DOMAIN sessionCache THEN "cache"
    ELSE "miss"

MapSet(f, k, v) == [x \in DOMAIN f \cup {k} |-> IF x = k THEN v ELSE f[x]]

-----------------------------------------------------------------------------
(* Calls *)

IdleCall == [pc |-> "idle", prompt |-> <<>>, retries |-> 0, attempt |-> 0,
             result |-> Null, req |-> 0,
             how |-> "none", attempts |-> 0, sleeps |-> <<>>, failures |-> 0,
             allTimedOut |-> TRUE,
             pre |-> [streak |-> 0, first |-> Null, latest |-> Null, notFound |-> FALSE]]

IdleBatch == [pc |-> "idle", requests |-> <<>>, concurrency |-> 0, next |-> 1,
              active |-> 0, results |-> <<>>]

FreeSlots == {c \in Slots : calls[c].pc = "idle"}

NextSlot == CHOOSE c \in FreeSlots : \A d \in FreeSlots : c <= d

InFlight(c) == calls[c].pc \in {"gh", "copilot", "sleep"}

\* The caller of the client is between two awaited calls.
MainIdle == batch.pc # "running" /\ \A c \in Slots : ~InFlight(c)

\* A limiter that starts every queued task at once.
LimiterHasRoomAlways(b) == TRUE

\* copilot.js:119 and 124  pLimit(concurrency): a queued task starts while
\* fewer than `concurrency` tasks are running.
LimiterHasRoom(b) == b.active < b.concurrency

\* Promise continuations of the batch that run before the next task
\* (copilot.js:124-131 under p-limit): start a queued request, or settle.
MicrotaskPending ==
    /\ batch.pc = "running"
    /\ \/ batch.next <= Len(batch.requests) /\ LimiterHasRoom(batch)
       \/ batch.next > Len(batch.requests) /\ batch.active = 0

\* What the run has observed so far, as recorded when a call starts.
PreOf(prompt) ==
    [streak |-> hist.streak,
     first |-> IF prompt \in DOMAIN hist.first THEN hist.first[prompt] ELSE Null,
     latest |-> IF CacheKey(prompt) \in DOMAIN hist.latest
                THEN hist.latest[CacheKey(prompt)] ELSE Null,
     notFound |-> hist.notFound]

HistAfter(call, result, how) ==
    [streak |-> IF how = "exhausted" THEN hist.streak + 1
                ELSE IF result # Null THEN 0 ELSE hist.streak,
     first |-> IF result # Null /\ call.prompt \notin DOMAIN hist.first
               THEN MapSet(hist.first, call.prompt, result) ELSE hist.first,
     latest |-> IF result # Null THEN MapSet(hist.latest, CacheKey(call.prompt), result)
                ELSE hist.latest,
     notFound |-> hist.notFound \/ how = "notfound"]

\* askCopilot returns `result`; a batch task then stores it under its key
\* (copilot.js:125-126) and frees its place in the limiter.
Complete(c, call, result, how, b) ==
    /\ calls' = [calls EXCEPT ![c] = IdleCall]
    /\ last' = [call EXCEPT !.pc = "done", !.result = result, !.how = how]
    /\ hist' = HistAfter(call, result, how)
    /\ batch' = IF call.req # 0
                THEN [b EXCEPT !.results = MapSet(@, RequestKey(b.requests[call.req]), result),
                               !.active = @ - 1]
                ELSE b

\* copilot.js:42-58: askCopilot up to its first await.
Begin(c, prompt, retries, req, b) ==
    LET call == [IdleCall EXCEPT !.prompt = prompt, !.retries = retries, !.req = req,
                                 !.pre = PreOf(prompt)]
        sc == ShortCircuit(prompt)
    IN  CASE sc \in {"disabled", "open"} ->
               Complete(c, call, Null, sc, b)
          [] sc = "cache" ->
               Complete(c, call, sessionCache[CacheKey(prompt)], sc, b)
          [] sc = "miss" ->
               /\ calls' = [calls EXCEPT ![c] = [call EXCEPT !.pc = "gh", !.attempts = 1]]
               /\ batch' = b
               /\ last' = IdleCall
               /\ UNCHANGED hist

-----------------------------------------------------------------------------
(* Operations of the client *)

\* copilot.js:42  a caller awaits askCopilot(prompt, { retries })
AskCopilot(prompt, retries) ==
    /\ MainIdle
    /\ FreeSlots # {}
    /\ Begin(NextSlot, prompt, retries, 0, IF batch.pc = "done" THEN IdleBatch ELSE batch)
    /\ UNCHANGED <<copilotAvailable, sessionCache, consecutiveFailures, circuitOpen,
                   warnings>>

\* copilot.js:29-31
ClearCopilotCache ==
    /\ MainIdle
    /\ sessionCache # <<>>
    /\ sessionCache' = <<>>
    /\ hist' = [hist EXCEPT !.first = <<>>, !.latest = <<>>]
    /\ last' = IdleCall
    /\ batch' = IdleBatch
    /\ UNCHANGED <<copilotAvailable, consecutiveFailures, circuitOpen, calls, warnings>>

BatchEarlyEmpty(reqs) ==
    [pc |-> "done", requests |-> reqs, concurrency |-> 0, next |-> 1, active |-> 0,
     results |-> <<>>]

\* copilot.js:115-117  the early return of askCopilotBatch
BatchEarly(reqs) ==
    [pc |-> "done", requests |-> reqs, concurrency |-> 0, next |-> 1, active |-> 0,
     results |-> [k \in {RequestKey(reqs[i]) : i \in DOMAIN reqs} |-> Null]]

AskCopilotBatch(reqs, concurrency) ==
    /\ MainIdle
    /\ batch' = IF copilotAvailable = "false" \/ circuitOpen
                THEN BatchEarly(reqs)
                ELSE [pc |-> "running", requests |-> reqs, concurrency |-> concurrency,
                      next |-> 1, active |-> 0, results |-> <<>>]
    /\ last' = IdleCall
    /\ UNCHANGED <<copilotAvailable, sessionCache, consecutiveFailures, circuitOpen,
                   calls, warnings, hist>>

\* copilot.js:124-125  the limiter starts the next queued request
BatchDequeue ==
    /\ batch.pc = "running"
    /\ batch.next <= Len(batch.requests)
    /\ LimiterHasRoom(batch)
    /\ Begin(NextSlot, batch.requests[batch.next].prompt, DefaultRetries, batch.next,
             [batch EXCEPT !.next = @ + 1, !.active = @ + 1])
    /\ UNCHANGED <<copilotAvailable, sessionCache, consecutiveFailures, circuitOpen,
                   warnings>>

\* copilot.js:130-131  every task has settled
BatchReturn ==
    /\ batch.pc = "running"
    /\ batch.next > Len(batch.requests)
    /\ batch.active = 0
    /\ batch' = [batch EXCEPT !.pc = "done"]
    /\ last' = IdleCall
    /\ UNCHANGED <<copilotAvailable, sessionCache, consecutiveFailures, circuitOpen,
                   calls, warnings, hist>>

\* copilot.js:59-64  the attempt succeeded
OnSuccess(c, stdout) ==
    /\ copilotAvailable' = "true"
    /\ consecutiveFailures' = 0
    /\ sessionCache' = MapSet(sessionCache, CacheKey(calls[c].prompt), SuccessValue(stdout))
    /\ Complete(c, [calls[c] EXCEPT !.allTimedOut = FALSE], SuccessValue(stdout),
                "success", batch)
    /\ UNCHANGED <<circuitOpen, warnings>>

\* copilot.js:164-169  gh is missing: runCopilot falls back to the copilot binary
OnFallback(c) ==
    /\ calls' = [calls EXCEPT ![c].pc = "copilot", ![c].allTimedOut = FALSE]
    /\ last' = IdleCall
    /\ UNCHANGED <<copilotAvailable, sessionCache, consecutiveFailures, circuitOpen,
                   batch, warnings, hist>>

\* copilot.js:66-73  not found: warn once, disable the client
OnNotFound(c) ==
    /\ warnings' = IF copilotAvailable = "null"
                   THEN [warnings EXCEPT !.missing = @ + 1] ELSE warnings
    /\ copilotAvailable' = "false"
    /\ Complete(c, [calls[c] EXCEPT !.allTimedOut = FALSE], Null, "notfound", batch)
    /\ UNCHANGED <<sessionCache, consecutiveFailures, circuitOpen>>

\* copilot.js:77-81 and 89-93  sleep before the next attempt
OnRetry(c, err) ==
    /\ calls' = [calls EXCEPT ![c].pc = "sleep",
                              ![c].sleeps = Append(@, Backoff(calls[c].attempt)),
                              ![c].allTimedOut = @ /\ err.killed]
    /\ last' = IdleCall
    /\ UNCHANGED <<copilotAvailable, sessionCache, consecutiveFailures, circuitOpen,
                   batch, warnings, hist>>

\* a failure that stores its null result under the prompt's key
OnExhaustedCaching(c, err) ==
    /\ consecutiveFailures' = consecutiveFailures + 1
    /\ circuitOpen' = recordFailureOpen(consecutiveFailures, circuitOpen)
    /\ warnings' = IF consecutiveFailures + 1 >= CIRCUIT_BREAKER_THRESHOLD
                   THEN [warnings EXCEPT !.breaker = @ + 1] ELSE warnings
    /\ sessionCache' = MapSet(sessionCache, CacheKey(calls[c].prompt), Null)
    /\ Complete(c, [calls[c] EXCEPT !.failures = @ + 1,
                                    !.allTimedOut = @ /\ err.killed],
                Null, "exhausted", batch)
    /\ UNCHANGED copilotAvailable

\* copilot.js:83-85 and 96-98 with recordFailure (174-181)
OnExhausted(c, err) ==
    /\ consecutiveFailures' = consecutiveFailures + 1
    /\ circuitOpen' = recordFailureOpen(consecutiveFailures, circuitOpen)
    /\ warnings' = IF consecutiveFailures + 1 >= CIRCUIT_BREAKER_THRESHOLD
                   THEN [warnings EXCEPT !.breaker = @ + 1] ELSE warnings
    /\ Complete(c, [calls[c] EXCEPT !.failures = @ + 1,
                                    !.allTimedOut = @ /\ err.killed],
                Null, "exhausted", batch)
    /\ UNCHANGED <<copilotAvailable, sessionCache>>

\* The callback of execFile (copilot.js:189-192) resumes runCopilot and the
\* try/catch of askCopilot (copilot.js:57-99).
ExecDone(c, out) ==
    /\ ~MicrotaskPending
    /\ calls[c].pc \in {"gh", "copilot"}
    /\ IF out.ok THEN OnSuccess(c, out.stdout)
       ELSE IF calls[c].pc = "gh" /\ isNotFoundError(out.err) THEN OnFallback(c)
       ELSE IF isNotFoundError(out.err) THEN OnNotFound(c)
       ELSE IF calls[c].attempt < calls[c].retries THEN OnRetry(c, out.err)
       ELSE OnExhausted(c, out.err)

\* copilot.js:80/92 then 56-58: the backoff timer fires, the next attempt starts
TimerFire(c) ==
    /\ ~MicrotaskPending
    /\ calls[c].pc = "sleep"
    /\ calls' = [calls EXCEPT ![c].pc = "gh", ![c].attempt = @ + 1,
                              ![c].attempts = @ + 1]
    /\ last' = IdleCall
    /\ UNCHANGED <<copilotAvailable, sessionCache, consecutiveFailures, circuitOpen,
                   batch, warnings, hist>>

-----------------------------------------------------------------------------
(* Text of smart-linter.js and plugin-loader.js.  The dash of the messages *)
(* at smart-linter.js:22, 68 and 286 is written "-": one character either  *)
(* way.                                                                    *)

ReviewPrefix ==
    <<"R", "e", "v", "i", "e", "w", " ", "t", "h", "i", "s", " ", "c", "o", "d", "e", " ",
      "c", "h", "a", "n", "g", "e", " ", "f", "o", "r", " ", "p", "o", "t", "e", "n", "t",
      "i", "a", "l", " ", "i", "s", "s", "u", "e", "s", ".", " ", "C", "h", "e", "c", "k",
      " ", "f", "o", "r", " ", "l", "o", "g", "i", "c", " ", "e", "r", "r", "o", "r", "s",
      ",", " ", "r", "a", "c", "e", " ", "c", "o", "n", "d", "i", "t", "i", "o", "n", "s",
      ",", " ", "n", "u", "l", "l", "/", "u", "n", "d", "e", "f", "i", "n", "e", "d", " ",
      "r", "i", "s", "k", "s", ",", " ", "e", "r", "r", "o", "r", " ", "h", "a", "n", "d",
      "l", "i", "n", "g", " ", "g", "a", "p", "s", ",", " ", "a", "n", "d", " ", "e", "d",
      "g", "e", " ", "c", "a", "s", "e", "s", ".", " ", "B", "e", " ", "c", "o", "n", "c",
      "i", "s", "e", " ", "-", " ", "l", "i", "s", "t", " ", "o", "n", "l", "y", " ", "r",
      "e", "a", "l", " ", "i", "s", "s", "u", "e", "s", ",", " ", "n", "o", "t", " ", "s",
      "t", "y", "l", "e", " ", "p", "r", "e", "f", "e", "r", "e", "n", "c", "e", "s", ":",
      "\n", "\n">>

-----------------------------------------------------------------------------
(* Text helpers *)

SpaceChars == {" ", "\n", "\t"}

Digits == <<"0", "1", "2", "3", "4", "5", "6", "7", "8", "9">>

DigitChars == {Digits[i] : i \in DOMAIN Digits}

UpperCase == <<"A", "B", "C", "D", "E", "F", "G", "H", "I", "J", "K", "L", "M",
               "N", "O", "P", "Q", "R", "S", "T", "U", "V", "W", "X", "Y", "Z">>

LowerCase == <<"a", "b", "c", "d", "e", "f", "g", "h", "i", "j", "k", "l", "m",
               "n", "o", "p", "q", "r", "s", "t", "u", "v", "w", "x", "y", "z">>

\* String.prototype.toLowerCase
ToLower(s) ==
    [i \in DOMAIN s |->
        IF \E k \in DOMAIN UpperCase : UpperCase[k] = s[i]
        THEN LowerCase[CHOOSE k \in DOMAIN UpperCase : UpperCase[k] = s[i]]
        ELSE s[i]]

\* String.prototype.startsWith / endsWith / includes
StartsWith(s, t) == Len(t) <= Len(s) /\ SubSeq(s, 1, Len(t)) = t

EndsWith(s, t) == Len(t) <= Len(s) /\ SubSeq(s, Len(s) - Len(t) + 1, Len(s)) = t

Includes(s, t) == \E i \in 1..(Len(s) - Len(t) + 1) : SubSeq(s, i, i + Len(t) - 1) = t

\* Number to decimal text, as a template literal prints it.
RECURSIVE NatToStr(_)
NatToStr(n) == IF n < 10 THEN <<Digits[n + 1]>> ELSE NatToStr(n \div 10) \o <<Digits[(n % 10) + 1]>>

\* String.prototype.split("\n")
RECURSIVE SplitLines(_)
SplitLines(s) ==
    IF \A i \in DOMAIN s : s[i] # "\n" THEN <<s>>
    ELSE LET k == CHOOSE i \in DOMAIN s : s[i] = "\n" /\ \A j \in 1..(i - 1) : s[j] # "\n"
         IN  <<SubSeq(s, 1, k - 1)>> \o SplitLines(SubSeq(s, k + 1, Len(s)))

\* Array.prototype.join("\n")
RECURSIVE JoinLines(_)
JoinLines(ls) ==
    IF ls = <<>> THEN <<>>
    ELSE IF Len(ls) = 1 THEN ls[1]
    ELSE ls[1] \o <<"\n">> \o JoinLines(Tail(ls))

RECURSIVE Flatten(_)
Flatten(ss) == IF ss = <<>> THEN <<>> ELSE Head(ss) \o Flatten(Tail(ss))

-----------------------------------------------------------------------------
(* Regular expressions: a pattern is a sequence of elements, each a        *)
(* character class taken lo times, or lo times or more.                    *)

One(chars) == [lo |-> 1, many |-> FALSE, neg |-> FALSE, chars |-> chars]

Star(chars) == [lo |-> 0, many |-> TRUE, neg |-> FALSE, chars |-> chars]

AtLeast(n, chars) == [lo |-> n, many |-> TRUE, neg |-> FALSE, chars |-> chars]

PlusNot(chars) == [lo |-> 1, many |-> TRUE, neg |-> TRUE, chars |-> chars]

Lit(s) == [i \in DOMAIN s |-> One({s[i]})]

InClass(e, ch) == (ch \in e.chars) # e.neg

RECURSIVE MatchFrom(_, _, _, _)
MatchFrom(pat, k, s, i) ==
    IF k > Len(pat) THEN TRUE
    ELSE LET e == pat[k]
             most == IF e.many THEN Len(s) - i + 1 ELSE e.lo
         IN  \E n \in e.lo..most :
                /\ i + n - 1 <= Len(s)
                /\ \A j \in i..(i + n - 1) : InClass(e, s[j])
                /\ MatchFrom(pat, k + 1, s, i + n)

\* RegExp.prototype.test with lastIndex 0
RegexTest(pats, s) ==
    \E pat \in pats : \E i \in 1..(Len(s) + 1) : MatchFrom(pat, 1, s, i)

-----------------------------------------------------------------------------
(* smart-linter.js: the heuristic table *)

Ws == <<Star(SpaceChars)>>

SecretTail ==
    Ws \o <<One({":", "="})>> \o Ws \o <<One({"'", "\""}), PlusNot({"'", "\""}), One({"'", "\""})>>

\* smart-linter.js:17-28
HEURISTIC_RULES ==
    << [pats |-> {Lit(<<"c", "o", "n", "s", "o", "l", "e", ".", "l", "o", "g", "(">>), Lit(<<"c", "o", "n", "s", "o", "l", "e", ".", "d", "e", "b", "u", "g", "(">>), Lit(<<"c", "o", "n", "s", "o", "l", "e", ".", "i", "n", "f", "o", "(">>)},
        ci |-> FALSE, severity |-> "warning", message |-> <<"L", "e", "f", "t", "o", "v", "e",
                                                            "r", " ", "c", "o", "n", "s", "o",
                                                            "l", "e", " ", "s", "t", "a", "t",
                                                            "e", "m", "e", "n", "t">>],
       [pats |-> {Lit(<<"T", "O", "D", "O">>), Lit(<<"F", "I", "X", "M", "E">>), Lit(<<"H", "A", "C", "K">>), Lit(<<"X", "X", "X">>)},
        ci |-> FALSE, severity |-> "info", message |-> <<"C", "o", "n", "t", "a", "i", "n",
                                                         "s", " ", "T", "O", "D", "O", "/",
                                                         "F", "I", "X", "M", "E", " ", "c",
                                                         "o", "m", "m", "e", "n", "t">>],
       [pats |-> {Lit(<<"d", "e", "b", "u", "g", "g", "e", "r", ";">>)},
        ci |-> FALSE, severity |-> "error", message |-> <<"D", "e", "b", "u", "g", "g", "e",
                                                          "r", " ", "s", "t", "a", "t", "e",
                                                          "m", "e", "n", "t", " ", "l", "e",
                                                          "f", "t", " ", "i", "n", " ", "c",
                                                          "o", "d", "e">>],
       [pats |-> {Lit(<<"p", "a", "s", "s", "w", "o", "r", "d">>) \o SecretTail, Lit(<<"s", "e", "c", "r", "e", "t">>) \o SecretTail,
                  Lit(<<"a", "p", "i", "k", "e", "y">>) \o SecretTail, Lit(<<"a", "p", "i", "_", "k", "e", "y">>) \o SecretTail,
                  Lit(<<"t", "o", "k", "e", "n">>) \o SecretTail},
        ci |-> TRUE, severity |-> "critical", message |-> <<"P", "o", "t", "e", "n", "t", "i",
                                                            "a", "l", " ", "h", "a", "r", "d",
                                                            "c", "o", "d", "e", "d", " ", "s",
                                                            "e", "c", "r", "e", "t", " ", "o",
                                                            "r", " ", "c", "r", "e", "d", "e",
                                                            "n", "t", "i", "a", "l">>],
       [pats |-> {Lit(<<".", "c", "a", "t", "c", "h", "(">>) \o Ws \o Lit(<<")">>)},
        ci |-> FALSE, severity |-> "warning", message |-> <<"E", "m", "p", "t", "y", " ", "c",
                                                            "a", "t", "c", "h", " ", "b", "l",
                                                            "o", "c", "k", " ", "-", " ", "e",
                                                            "r", "r", "o", "r", "s", " ", "a",
                                                            "r", "e", " ", "s", "i", "l", "e",
                                                            "n", "t", "l", "y", " ", "s", "w",
                                                            "a", "l", "l", "o", "w", "e", "d">>],
       [pats |-> {Lit(<<"e", "v", "a", "l">>) \o Ws \o Lit(<<"(">>)},
        ci |-> FALSE, severity |-> "error", message |-> <<"U", "s", "e", " ", "o", "f", " ",
                                                          "e", "v", "a", "l", "(", ")", " ",
                                                          "-", " ", "s", "e", "c", "u", "r",
                                                          "i", "t", "y", " ", "r", "i", "s", "k">>],
       [pats |-> {Lit(<<"a", "n", "y">>) \o Ws \o <<One({";", ",", ")"})>>},
        ci |-> FALSE, severity |-> "info", message |-> <<"T", "y", "p", "e", "S", "c", "r",
                                                         "i", "p", "t", " ", "\"", "a", "n",
                                                         "y", "\"", " ", "t", "y", "p", "e",
                                                         " ", "u", "s", "a", "g", "e", " ",
                                                         "-", " ", "c", "o", "n", "s", "i",
                                                         "d", "e", "r", " ", "a", " ", "s",
                                                         "t", "r", "i", "c", "t", "e", "r",
                                                         " ", "t", "y", "p", "e">>],
       [pats |-> {Lit(<<"s", "l", "e", "e", "p">>) \o Ws \o Lit(<<"(">>) \o Ws \o <<AtLeast(4, DigitChars)>>},
        ci |-> FALSE, severity |-> "warning", message |-> <<"L", "o", "n", "g", " ", "s", "l",
                                                            "e", "e", "p", "/", "d", "e", "l",
                                                            "a", "y", " ", "-", " ", "p", "o",
                                                            "t", "e", "n", "t", "i", "a", "l",
                                                            " ", "p", "e", "r", "f", "o", "r",
                                                            "m", "a", "n", "c", "e", " ", "i",
                                                            "s", "s", "u", "e">>],
       [pats |-> {Lit(<<"/", "/">>) \o Ws \o Lit(<<"@", "t", "s", "-", "i", "g", "n", "o", "r", "e">>)},
        ci |-> FALSE, severity |-> "warning", message |-> <<"@", "t", "s", "-", "i", "g", "n",
                                                            "o", "r", "e", " ", "s", "u", "p",
                                                            "p", "r", "e", "s", "s", "e", "s",
                                                            " ", "t", "y", "p", "e", " ", "c",
                                                            "h", "e", "c", "k", "i", "n", "g">>],
       [pats |-> {Lit(<<"p", "r", "o", "c", "e", "s", "s", ".", "e", "x", "i", "t">>)},
        ci |-> FALSE, severity |-> "warning", message |-> <<"p", "r", "o", "c", "e", "s", "s",
                                                            ".", "e", "x", "i", "t", "(", ")",
                                                            " ", "c", "a", "l", "l", " ", "-",
                                                            " ", "m", "a", "y", " ", "c", "a",
                                                            "u", "s", "e", " ", "a", "b", "r",
                                                            "u", "p", "t", " ", "t", "e", "r",
                                                            "m", "i", "n", "a", "t", "i", "o",
                                                            "n">>] >>

\* smart-linter.js:96  pattern.test(content)
RuleMatches(rule, content) ==
    RegexTest(rule.pats, IF rule.ci THEN ToLower(content) ELSE content)

-----------------------------------------------------------------------------
(* smart-linter.js: findings and deduplication *)

DedupPrefixLen == 50
HeuristicContentLen == 80
SnippetLen == 2000
MinCopilotLines == 3
MinMessageLen == 10

\* A finding without a line (line: null).
NoLine == 0 - 1

Finding(file, line, severity, message, source) ==
    [file |-> file, line |-> line, severity |-> severity, message |-> message,
     source |-> source]

\* `${f.line}` of a template literal
LineStr(line) == IF line = NoLine THEN <<"n", "u", "l", "l">> ELSE NatToStr(line)

DedupKeyWholeMessage(f) ==
    f.file \o <<":">> \o LineStr(f.line) \o <<":">> \o f.message

\* smart-linter.js:323
DedupKey(f) ==
    f.file \o <<":">> \o LineStr(f.line) \o <<":">> \o Slice(f.message, DedupPrefixLen)

RECURSIVE DedupFrom(_, _)
DedupFrom(findings, seen) ==
    IF findings = <<>> THEN <<>>
    ELSE LET f == Head(findings)
         IN  IF DedupKey(f) \in seen THEN DedupFrom(Tail(findings), seen)
             ELSE <<f>> \o DedupFrom(Tail(findings), seen \cup {DedupKey(f)})

deduplicateNothing(findings) == findings

\* smart-linter.js:320-328
deduplicateFindings(findings) == DedupFrom(findings, {})

-----------------------------------------------------------------------------
(* smart-linter.js: the layers of one hunk *)

\* smart-linter.js:88-90
AddedLines(hunk) ==
    LET adds == SelectSeq(hunk.changes, LAMBDA c : c.type = "add")
    IN  [i \in DOMAIN adds |->
            [content |-> adds[i].content,
             line |-> IF adds[i].ln # 0 THEN adds[i].ln ELSE hunk.newStart]]

\* smart-linter.js:93-105
HeuristicFindings(file, a) ==
    LET hits == SelectSeq([i \in DOMAIN HEURISTIC_RULES |-> i],
                          LAMBDA i : RuleMatches(HEURISTIC_RULES[i], a.content))
    IN  [k \in DOMAIN hits |->
            Finding(file, a.line, HEURISTIC_RULES[hits[k]].severity,
                    HEURISTIC_RULES[hits[k]].message \o <<":", " ">>
                        \o Slice(Trim(a.content), HeuristicContentLen),
                    "heuristic")]

MinLiteralLen == 8
EntropyValueLen == 40

\* The index after the longest run of characters of the class (or, with
\* neg, outside it) that starts at index i of s.
RECURSIVE RunEnd(_, _, _, _)
RunEnd(s, i, chars, neg) ==
    IF i <= Len(s) /\ ((s[i] \in chars) # neg) THEN RunEnd(s, i + 1, chars, neg) ELSE i

\* smart-linter.js:234 matched at index i of the line:
\* (?:const|let|var)\s+(\w+)\s*=\s*[quote]([^quote]{8,})[quote]
\* Every repetition is greedy and is followed by a character outside its
\* class, so the longest runs are the only way to match.  The third quote
\* character of the pattern, the backquote, is in no line of this model.
DeclAt(s, i) ==
    LET QuoteChars == {"'", "\""}
        rest == SubSeq(s, i, Len(s))
        kws == {kw \in {<<"c", "o", "n", "s", "t">>, <<"l", "e", "t">>, <<"v", "a", "r">>} :
                   StartsWith(rest, kw)}
        kw == IF kws = {} THEN <<>> ELSE CHOOSE k \in kws : TRUE
        n1 == i + Len(kw)
        n2 == RunEnd(s, n1, SpaceChars, FALSE)
        n3 == RunEnd(s, n2, {UpperCase[u] : u \in DOMAIN UpperCase} \cup {LowerCase[k] : k \in DOMAIN LowerCase}
                                \cup DigitChars \cup {"_"}, FALSE)
        e1 == RunEnd(s, n3, SpaceChars, FALSE)
        v0 == RunEnd(s, e1 + 1, SpaceChars, FALSE)
        v2 == RunEnd(s, v0 + 1, QuoteChars, TRUE)
        ok == /\ kws # {} /\ n2 > n1 /\ n3 > n2
              /\ e1 <= Len(s) /\ s[e1] = "="
              /\ v0 <= Len(s) /\ s[v0] \in QuoteChars
              /\ v2 - (v0 + 1) >= MinLiteralLen /\ v2 <= Len(s)
    IN  [ok |-> ok, next |-> v2 + 1,
         context |-> IF ok THEN SubSeq(s, n2, n3 - 1) ELSE <<>>,
         value |-> IF ok THEN SubSeq(s, v0 + 1, v2 - 1) ELSE <<>>]

\* smart-linter.js:232-240  the matches of the pattern from index i on
RECURSIVE extractStrings(_, _)
extractStrings(line, i) ==
    IF i > Len(line) THEN <<>>
    ELSE LET m == DeclAt(line, i)
         IN  IF m.ok THEN <<[context |-> m.context, value |-> m.value]>>
                              \o extractStrings(line, m.next)
             ELSE extractStrings(line, i + 1)

\* part_003:7-16 and 135-166.  Step 1 (a known prefix) is computed; steps 2 to 5
\* decode base64 and compute a Shannon entropy, and the literals of this
\* model that reach them are none: every literal of MinLiteralLen
\* characters or more in the model's lines starts with a known prefix.
detectSecret(str, context) ==
    LET SECRET_PREFIXES ==
            {<<"s", "k", "-">>, <<"p", "k", "-">>, <<"s", "k", "_", "l", "i", "v", "e", "_">>,
             <<"p", "k", "_", "l", "i", "v", "e", "_">>, <<"s", "k", "_", "t", "e", "s", "t", "_">>, <<"p", "k", "_", "t", "e", "s", "t", "_">>,
             <<"g", "h", "p", "_">>, <<"g", "h", "o", "_">>, <<"g", "h", "u", "_">>,
             <<"g", "h", "s", "_">>, <<"g", "h", "r", "_">>, <<"A", "K", "I", "A">>,
             <<"A", "B", "I", "A">>, <<"A", "C", "C", "A">>, <<"A", "S", "I", "A">>,
             <<"x", "o", "x", "b", "-">>, <<"x", "o", "x", "p", "-">>, <<"x", "o", "x", "o", "-">>,
             <<"x", "a", "p", "p", "-">>, <<"e", "y", "J">>, <<"S", "G", ".">>,
             <<"s", "q", "0">>, <<"s", "k", "_", "l", "i", "v", "e">>, <<"r", "k", "_", "l", "i", "v", "e">>}
    IN
    IF Len(str) < MinLiteralLen THEN [isSecret |-> FALSE, reason |-> <<>>, confidence |-> "null"]
    ELSE IF \E p \in SECRET_PREFIXES : StartsWith(str, p)
    THEN [isSecret |-> TRUE, reason |-> <<"K", "n", "o", "w", "n", " ", "s", "e", "c", "r", "e", "t", " ", "p", "r", "e", "f", "i", "x", " ", "d", "e", "t", "e", "c", "t", "e", "d">>,
          confidence |-> "high"]
    ELSE [isSecret |-> FALSE, reason |-> <<>>, confidence |-> "null"]

\* smart-linter.js:107-120
EntropyFindings(file, a) ==
    LET strings == extractStrings(a.content, 1)
        found == SelectSeq(strings, LAMBDA x : detectSecret(x.value, x.context).isSecret)
    IN  [k \in DOMAIN found |->
            LET result == detectSecret(found[k].value, found[k].context)
            IN  Finding(file, a.line,
                        IF result.confidence = "high" THEN "critical" ELSE "warning",
                        result.reason \o <<":", " ">> \o Slice(found[k].value, EntropyValueLen)
                            \o <<".", ".", ".">>,
                        "entropy")]

\* smart-linter.js:122-138: the pattern needs a quoted run of 24 or more
\* base64 characters; the lines of this model have none.
Base64Findings(file, a) == <<>>

\* smart-linter.js:242-280: a finding needs a function of more than
\* MAX_FUNCTION_LINES lines; the hunks of this model are shorter.
checkFunctionLength(content, file, startLine) == <<>>

\* ast-analyzer.js:22-24
canAnalyze(filename) ==
    \E ext \in {<<".", "j", "s">>, <<".", "j", "s", "x">>, <<".", "t", "s">>, <<".", "t", "s", "x">>, <<".", "m", "j", "s">>} : EndsWith(filename, ext)

\* ast-analyzer.js:34-174, on the statements of this model: a console.log
\* call at top level is reported at its line, nothing else is.
analyzeWithAST(code, filename) ==
    IF code = <<>> \/ ~canAnalyze(filename) THEN <<>>
    ELSE LET ls == SplitLines(code)
             hits == SelectSeq([i \in DOMAIN ls |-> i],
                               LAMBDA i : Includes(ls[i], <<"c", "o", "n", "s", "o", "l", "e", ".", "l", "o", "g", "(">>))
         IN  [k \in DOMAIN hits |->
                 [line |-> hits[k], severity |-> "warning", message |-> <<"C", "o", "n", "s",
                                                                          "o", "l", "e", ".",
                                                                          "l", "o", "g", "(",
                                                                          ")", " ", "s", "t",
                                                                          "a", "t", "e", "m",
                                                                          "e", "n", "t", " ",
                                                                          "o", "u", "t", "s",
                                                                          "i", "d", "e", " ",
                                                                          "c", "o", "n", "d",
                                                                          "i", "t", "i", "o",
                                                                          "n", "a", "l", "/",
                                                                          "c", "a", "t", "c",
                                                                          "h", " ", "b", "l",
                                                                          "o", "c", "k">>]]

\* smart-linter.js:147 and 162
CodeSnippet(hunk) ==
    LET added == AddedLines(hunk)
    IN  JoinLines([i \in DOMAIN added |-> added[i].content])

\* smart-linter.js:146-158
AstFindings(file, hunk) ==
    IF canAnalyze(file) /\ Len(AddedLines(hunk)) >= MinCopilotLines
    THEN LET found == analyzeWithAST(CodeSnippet(hunk), file)
         IN  [k \in DOMAIN found |->
                 Finding(file,
                         IF found[k].line # 0 THEN hunk.newStart + found[k].line - 1
                         ELSE hunk.newStart,
                         found[k].severity, found[k].message, "ast")]
    ELSE <<>>

\* smart-linter.js:92-158: what a hunk adds before the call to Copilot
HunkLocalFindings(file, hunk) ==
    LET added == AddedLines(hunk)
    IN  Flatten([i \in DOMAIN added |->
                    HeuristicFindings(file, added[i]) \o EntropyFindings(file, added[i])
                        \o Base64Findings(file, added[i])])
        \o checkFunctionLength(hunk.content, file, hunk.newStart)
        \o AstFindings(file, hunk)

\* smart-linter.js:283-288
ReviewPrompt(codeSnippet) == ReviewPrefix \o Slice(codeSnippet, SnippetLen)

\* smart-linter.js:311  line.replace(/^[-*.)\d\s]+/, '')
RECURSIVE StripLead(_)
StripLead(s) ==
    IF s # <<>> /\ Head(s) \in {"-", "*", ".", ")"} \cup DigitChars \cup SpaceChars
    THEN StripLead(Tail(s)) ELSE s

\* smart-linter.js:305-309
ResponseSeverity(line) ==
    LET lower == ToLower(line)
    IN  IF Includes(lower, <<"e", "r", "r", "o", "r">>) \/ Includes(lower, <<"b", "u", "g">>) \/ Includes(lower, <<"c", "r", "a", "s", "h">>)
        THEN "error"
        ELSE IF Includes(lower, <<"w", "a", "r", "n">>) \/ Includes(lower, <<"r", "i", "s", "k">>) \/ Includes(lower, <<"i", "s", "s", "u", "e">>)
        THEN "warning"
        ELSE "suggestion"

\* smart-linter.js:296-318
parseCopilotResponse(response, file, startLine) ==
    LET lines == SelectSeq(SplitLines(response), LAMBDA l : Trim(l) # <<>>)
        kept == SelectSeq(lines, LAMBDA l :
                    /\ ~StartsWith(l, <<"H", "e", "r", "e">>)
                    /\ ~StartsWith(l, <<"T", "h", "e", " ", "c", "o", "d", "e">>)
                    /\ ~StartsWith(l, <<"O", "v", "e", "r", "a", "l", "l">>)
                    /\ Len(Trim(StripLead(l))) > MinMessageLen)
    IN  [k \in DOMAIN kept |->
            Finding(file, startLine, ResponseSeverity(kept[k]), Trim(StripLead(kept[k])),
                    "copilot")]

\* smart-linter.js:290-293  `if (!response) return []`
CopilotFindings(response, file, startLine) ==
    IF response = Null \/ response = <<>> THEN <<>>
    ELSE parseCopilotResponse(response, file, startLine)

-----------------------------------------------------------------------------
(* plugin-loader.js (src/unnamed/part_004): runPlugin *)

Undefined == <<"<undefined>">>

PluginItem(line, message, severity) ==
    [nullish |-> FALSE, line |-> line, message |-> message, severity |-> severity]

\* `${r.message}` of a template literal
MessageStr(m) == IF m = Undefined THEN <<"u", "n", "d", "e", "f", "i", "n", "e", "d">> ELSE m

\* the mapping without the plugin's declared severity
PluginFindingOwnSeverity(plugin, file, r) ==
    Finding(file,
            IF r.line # 0 THEN r.line ELSE NoLine,
            IF r.severity # "" THEN r.severity ELSE "warning",
            <<"[">> \o plugin.name \o <<"]", " ">> \o MessageStr(r.message),
            "plugin")

\* part_004:133-139
PluginFinding(plugin, file, r) ==
    Finding(file,
            IF r.line # 0 THEN r.line ELSE NoLine,
            IF r.severity # "" THEN r.severity
            ELSE IF plugin.severity # "" THEN plugin.severity ELSE "warning",
            <<"[">> \o plugin.name \o <<"]", " ">> \o MessageStr(r.message),
            "plugin")

\* part_004:127-144.  plugin.out is what plugin.analyze(file, content) does:
\* it throws a value, returns a value that is no array, returns an array, or
\* returns a promise that never settles ("hang"): the await has no timeout.
\* The catch block reads err.message, which itself throws a TypeError when
\* the thrown value is null or undefined.
runPlugin(plugin, file, content) ==
    LET out == plugin.out
    IN  IF out.kind = "throw"
        THEN [settles |-> TRUE, threw |-> out.nullish, findings |-> <<>>]
        ELSE IF out.kind = "hang" THEN [settles |-> FALSE, threw |-> FALSE, findings |-> <<>>]
        ELSE IF out.kind = "value" THEN [settles |-> TRUE, threw |-> FALSE, findings |-> <<>>]
        ELSE IF \E k \in DOMAIN out.items : out.items[k].nullish
        THEN [settles |-> TRUE, threw |-> FALSE, findings |-> <<>>]
        ELSE [settles |-> TRUE, threw |-> FALSE,
              findings |-> [k \in DOMAIN out.items |-> PluginFinding(plugin, file, out.items[k])]]

-----------------------------------------------------------------------------
(* false-positive-filter.js, as analyze uses it *)

\* false-positive-filter.js:154-160
buildFeatureText(finding) ==
    IF finding.message # <<>> /\ finding.file # <<>>
    THEN finding.message \o <<" ">> \o finding.file
    ELSE finding.message \o finding.file

\* classifier.categorize of the bayes package: a label, or it throws.
Categorize(classifier, text) ==
    CASE classifier = "report" -> "report"
      [] classifier = "skipConsole" -> IF Includes(text, <<"c", "o", "n", "s", "o", "l", "e">>) THEN "skip" ELSE "report"
      [] classifier = "skipAll" -> "skip"
      [] classifier = "throws" -> "throw"

\* shouldReport failing closed: a classifier error drops the finding.
shouldReportFailClosed(classifier, finding) ==
    Categorize(classifier, buildFeatureText(finding)) = "report"

\* false-positive-filter.js:92-105
shouldReport(classifier, finding) ==
    LET category == Categorize(classifier, buildFeatureText(finding))
    IN  IF category = "throw" THEN TRUE ELSE category = "report"

\* smart-linter.js:178-193
FinalResult(findings, useML, classifier) ==
    LET result == deduplicateFindings(findings)
    IN  IF useML /\ Len(result) > 0
        THEN SelectSeq(result, LAMBDA f : shouldReport(classifier, f))
        ELSE result

-----------------------------------------------------------------------------
(* Inputs of analyze *)

MaxFiles == 2
MaxPlugins == 2
MaxRuns == 2

Change(type, content, ln) == [type |-> type, content |-> content, ln |-> ln]

HunkA == [newStart |-> 1, content |-> <<"@", "@", " ", "-", "1", ",", "0", " ", "+", "1", ",",
                                        "3", " ", "@", "@">>,
          changes |-> <<Change("add", <<"+", "c", "o", "n", "s", "o", "l", "e", ".", "l", "o",
                                        "g", "(", "x", ")", ";">>, 1), Change("add", <<"+",
                                                                                       "r",
                                                                                       "u",
                                                                                       "n",
                                                                                       "(",
                                                                                       "y",
                                                                                       ")", ";">>, 2),
                        Change("add", <<"+", "s", "t", "o", "p", "(", "z", ")", ";">>, 3)>>]

HunkB == [newStart |-> 10, content |-> <<"@", "@", " ", "-", "1", "0", ",", "1", " ", "+", "1",
                                         "0", ",", "3", " ", "@", "@">>,
          changes |-> <<Change("add", <<"+", "r", "u", "n", "(", "y", ")", ";">>, 10), Change("del", <<
                                                                                                       "-",
                                                                                                       "o",
                                                                                                       "l",
                                                                                                       "d",
                                                                                                       "(",
                                                                                                       ")",
                                                                                                       ";">>, 11),
                        Change("add", <<"+", "s", "t", "o", "p", "(", "z", ")", ";">>, 11), Change("add", <<
                                                                                                            "+",
                                                                                                            "p",
                                                                                                            "r",
                                                                                                            "o",
                                                                                                            "c",
                                                                                                            "e",
                                                                                                            "s",
                                                                                                            "s",
                                                                                                            ".",
                                                                                                            "e",
                                                                                                            "x",
                                                                                                            "i",
                                                                                                            "t",
                                                                                                            "(",
                                                                                                            "1",
                                                                                                            ")",
                                                                                                            ";">>, 12)>>]

\* Two added lines only, the second without a line number of its own.
HunkC == [newStart |-> 20, content |-> <<"@", "@", " ", "-", "2", "0", ",", "0", " ", "+", "2",
                                         "0", ",", "2", " ", "@", "@">>,
          changes |-> <<Change("add", <<"+", "d", "e", "b", "u", "g", "g", "e", "r", ";">>, 20), Change("add", <<
                                                                                                                 "+",
                                                                                                                 "/",
                                                                                                                 "/",
                                                                                                                 " ",
                                                                                                                 "T",
                                                                                                                 "O",
                                                                                                                 "D",
                                                                                                                 "O",
                                                                                                                 " ",
                                                                                                                 "t",
                                                                                                                 "i",
                                                                                                                 "d",
                                                                                                                 "y">>, 0)>>]

\* one added line: a GitHub token in a string literal
HunkS == [newStart |-> 30, content |-> <<"@", "@", " ", "-", "3", "0", ",", "0", " ", "+", "3", "0", ",", "1", " ", "@", "@">>,
          changes |-> <<Change("add",
                               <<"+", "c", "o", "n", "s", "t", " ", "a", "p", "i", "K", "e", "y", " ", "=", " ", "\"", "g", "h", "p", "_", "a", "a", "a", "a", "a", "a", "a", "a", "a", "a", "a", "a", "a", "a", "a", "a", "a", "a", "a", "a", "\"">>,
                               30)>>]

FileA == [file |-> <<"s", "r", "c", "/", "a", ".", "j", "s">>, type |-> "modified",
          hunks |-> <<HunkA, HunkB, HunkS>>]
FileB == [file |-> <<"n", "o", "t", "e", "s", ".", "m", "d">>, type |-> "added", hunks |-> <<HunkC>>]
FileDel == [file |-> <<"s", "r", "c", "/", "c", ".", "j", "s">>, type |-> "deleted", hunks |-> <<HunkA>>]

\* An environment file with one added line, API_KEY=a1b2c3d4e5f6, as the diff
\* processor delivers it (diff-processor.js:59-64: the content of a change
\* keeps its diff marker).
FileEnv ==
    [file |-> <<".", "e", "n", "v">>, type |-> "added",
     hunks |-> <<[newStart |-> 40, content |-> <<"@", "@", " ", "-", "0", ",", "0", " ", "+", "4", "0", ",", "1", " ", "@", "@">>,
                  changes |-> <<Change("add", <<"+", "A", "P", "I", "_", "K", "E", "Y", "=", "a", "1", "b", "2", "c", "3", "d", "4", "e", "5", "f", "6">>, 40)>>]>>]

FileInputs == UNION {[1..n -> {FileA, FileB, FileDel}] : n \in 0..MaxFiles} \cup {<<FileEnv>>}

\* What plugin.analyze does on every call.
PluginOut(kind, nullish, items) == [kind |-> kind, nullish |-> nullish, items |-> items]

PluginGood == [name |-> <<"n", "o", "-", "r", "u", "n">>, severity |-> "info",
               out |-> PluginOut("array", FALSE,
                                 <<PluginItem(2, <<"r", "u", "n", "(", ")", " ", "i", "s", " ",
                                                   "b", "a", "n", "n", "e", "d", " ", "h", "e",
                                                   "r", "e">>, ""),
                                   PluginItem(0, Undefined, "error")>>)]
\* throw new Error(...)
PluginThrows == [name |-> <<"b", "r", "o", "k", "e", "n">>, severity |-> "",
                 out |-> PluginOut("throw", FALSE, <<>>)]
\* throw undefined, or a rejection without a reason
PluginThrowsNothing == [name |-> <<"b", "r", "o", "k", "e", "n">>, severity |-> "",
                        out |-> PluginOut("throw", TRUE, <<>>)]
\* returns something that is no array
PluginOdd == [name |-> <<"b", "r", "o", "k", "e", "n">>, severity |-> "",
              out |-> PluginOut("value", FALSE, <<>>)]

\* analyze returns a promise that never settles
PluginHangs == [name |-> <<"s", "l", "o", "w">>, severity |-> "",
                out |-> PluginOut("hang", FALSE, <<>>)]

PluginInputs == UNION {[1..n -> {PluginGood, PluginThrows, PluginThrowsNothing, PluginOdd, PluginHangs}] : n \in 0..MaxPlugins}

MLInputs == {[useML |-> FALSE, classifier |-> "report"]}
                \cup [useML : {TRUE}, classifier : {"skipConsole", "skipAll", "throws"}]

PromptA == ReviewPrompt(CodeSnippet(HunkA))

\* What the external process does for a prompt, the same on every attempt.
OracleInputs ==
    [a : {[ok |-> TRUE, stdout |->
              <<" ", "H", "e", "r", "e", " ", "i", "s", " ", "t", "h", "e", " ", "r", "e", "v", "i",
               "e", "w", "\n", "-", " ", "P", "o", "s", "s", "i", "b", "l", "e", " ", "b", "u", "g",
               " ", "w", "h", "e", "n", " ", "x", " ", "i", "s", " ", "n", "u", "l", "l", "\n", "O",
               "v", "e", "r", "a", "l", "l", " ", "f", "i", "n", "e", "\n">>], [ok |-> FALSE, err |-> ErrTimeout],
          [ok |-> FALSE, err |-> ErrEnoent]},
     b : {[ok |-> TRUE, stdout |->
              <<"2", ")", " ", "T", "h", "e", " ", "c", "a", "l", "l", " ", "t", "o", " ", "s", "t",
               "o", "p", " ", "m", "a", "y", " ", "r", "a", "c", "e", " ", "w", "i", "t", "h", " ",
               "r", "u", "n", " ", "a", "n", "d", " ", "l", "e", "a", "v", "e", " ", "t", "h", "e",
               " ", "s", "t", "a", "t", "e", " ", "h", "a", "l", "f", " ", "d", "o", "n", "e", ":",
               " ", "c", "a", "s", "e", " ", "o", "n", "e", "\n", "\n", "-", " ", "T", "h", "e",
               " ", "c", "a", "l", "l", " ", "t", "o", " ", "s", "t", "o", "p", " ", "m", "a", "y",
               " ", "r", "a", "c", "e", " ", "w", "i", "t", "h", " ", "r", "u", "n", " ", "a", "n",
               "d", " ", "l", "e", "a", "v", "e", " ", "t", "h", "e", " ", "s", "t", "a", "t", "e",
               " ", "h", "a", "l", "f", " ", "d", "o", "n", "e", ":", " ", "c", "a", "s", "e", " ",
               "t", "w", "o", "\n", "*", " ", "t", "o", "o", " ", "s", "h", "o", "r", "t", "\n">>], [ok |-> FALSE, err |-> ErrTimeout],
          [ok |-> FALSE, err |-> ErrEnoent]}]

\* smart-linter.js:31-34
ENV_SECRET_KEYS ==
    {<<"a", "p", "i", "_", "k", "e", "y">>,
     <<"s", "e", "c", "r", "e", "t", "_", "k", "e", "y">>,
     <<"a", "c", "c", "e", "s", "s", "_", "t", "o", "k", "e", "n">>,
     <<"a", "u", "t", "h", "_", "t", "o", "k", "e", "n">>,
     <<"p", "r", "i", "v", "a", "t", "e", "_", "k", "e", "y">>,
     <<"d", "a", "t", "a", "b", "a", "s", "e", "_", "u", "r", "l">>,
     <<"d", "b", "_", "p", "a", "s", "s", "w", "o", "r", "d">>,
     <<"a", "w", "s", "_", "s", "e", "c", "r", "e", "t">>,
     <<"s", "t", "r", "i", "p", "e", "_", "s", "e", "c", "r", "e", "t">>,
     <<"s", "e", "n", "d", "g", "r", "i", "d", "_", "a", "p", "i", "_", "k", "e", "y">>,
     <<"t", "w", "i", "l", "i", "o", "_", "a", "u", "t", "h", "_", "t", "o", "k", "e", "n">>,
     <<"g", "i", "t", "h", "u", "b", "_", "t", "o", "k", "e", "n">>,
     <<"n", "p", "m", "_", "t", "o", "k", "e", "n">>}

\* smart-linter.js:216
PlaceholderPrefixes ==
    {<<"y", "o", "u", "r", "_">>,
     <<"<">>,
     <<"c", "h", "a", "n", "g", "e", "m", "e">>,
     <<"x", "x", "x">>,
     <<"p", "l", "a", "c", "e", "h", "o", "l", "d", "e", "r">>}

\* The position of the first "=" of a line, 0 when it has none.
FirstEq(s) ==
    IF \E i \in DOMAIN s : s[i] = "="
    THEN CHOOSE i \in DOMAIN s : s[i] = "=" /\ \A j \in 1..(i - 1) : s[j] # "="
    ELSE 0

\* smart-linter.js:208  content.match(/^([A-Z_][A-Z0-9_]*)=(.+)$/)
EnvMatch(content) ==
    LET k == FirstEq(content)
    IN  /\ k > 1
        /\ k < Len(content)
        /\ content[1] \in {UpperCase[u] : u \in DOMAIN UpperCase} \cup {"_"}
        /\ \A j \in 2..(k - 1) : content[j] \in {UpperCase[u] : u \in DOMAIN UpperCase} \cup DigitChars \cup {"_"}
        /\ \A j \in (k + 1)..Len(content) : content[j] # "\n"

EnvKey(content) == SubSeq(content, 1, FirstEq(content) - 1)
EnvValue(content) == SubSeq(content, FirstEq(content) + 1, Len(content))

\* smart-linter.js:214-216
EnvIsSecret(content) ==
    /\ EnvMatch(content)
    /\ \E n \in ENV_SECRET_KEYS : StartsWith(ToLower(EnvKey(content)), n)
    /\ Len(Trim(EnvValue(content))) > 0
    /\ ~\E n \in PlaceholderPrefixes : StartsWith(ToLower(Trim(EnvValue(content))), n)

EnvValueLen == 20

\* smart-linter.js:198-230
scanEnvFile(file) ==
    Flatten([h \in DOMAIN file.hunks |->
        LET added == AddedLines(file.hunks[h])
            hits == SelectSeq(added, LAMBDA a : EnvIsSecret(a.content))
        IN  [k \in DOMAIN hits |->
                Finding(file.file, hits[k].line, "critical",
                        <<"S", "e", "c", "r", "e", "t", " ", "i", "n", " ", ".", "e", "n", "v",
                          " ", "f", "i", "l", "e", ":", " ">> \o EnvKey(hits[k].content) \o <<"=">>
                            \o Slice(EnvValue(hits[k].content), EnvValueLen) \o <<".", ".", ".">>,
                        "entropy")]])

\* smart-linter.js:82-85
EnvFindings(file) ==
    IF Includes(file.file, <<".", "e", "n", "v">>) /\ ~Includes(file.file, <<".", "e", "x",
                                                                             "a", "m", "p",
                                                                             "l", "e">>)
    THEN scanEnvFile(file) ELSE <<>>

-----------------------------------------------------------------------------
(* analyze (smart-linter.js:55-194), one await at a time *)

IdleRun == [no |-> 0, pc |-> "idle", f |-> 1, h |-> 1, p |-> 1, findings |-> <<>>,
            result |-> <<>>, fresh |-> TRUE, threw |-> FALSE, base |-> 0]

AnalyzeInputs ==
    {[files |-> fs, plugins |-> ps, useML |-> ml.useML, classifier |-> ml.classifier,
      oracle |-> o] :
        fs \in FileInputs, ps \in PluginInputs, ml \in MLInputs, o \in OracleInputs}

\* HunkLocalFindings of every hunk of the input files, computed once.
LocalFindingsOf ==
    [p \in UNION {{<<f.file, f.hunks[k]>> : k \in DOMAIN f.hunks} : f \in {FileA, FileB, FileDel, FileEnv}}
        |-> HunkLocalFindings(p[1], p[2])]

\* The outcome of the external process for a prompt in this environment.
Outcome(prompt) == IF prompt = PromptA THEN input.oracle.a ELSE input.oracle.b

CurrentFile == input.files[run.f]
CurrentHunk == CurrentFile.hunks[run.h]

\* The end of the body of the hunk loop (smart-linter.js:87 and 166-169).
AfterHunk(r) ==
    IF r.h < Len(CurrentFile.hunks) THEN [r EXCEPT !.pc = "hunk", !.h = @ + 1]
    ELSE [r EXCEPT !.pc = "plugins", !.p = 1]

\* copilot.js:5-16  the module state as loaded
ClientInit ==
    /\ copilotAvailable = "null"
    /\ sessionCache = <<>>
    /\ consecutiveFailures = 0
    /\ circuitOpen = FALSE
    /\ calls = [c \in Slots |-> IdleCall]
    /\ batch = IdleBatch
    /\ warnings = [missing |-> 0, breaker |-> 0]
    /\ last = IdleCall
    /\ hist = [streak |-> 0, first |-> <<>>, latest |-> <<>>, notFound |-> FALSE]

\* smart-linter.js:55-76  analyze(files, options) is called, in a new process
\* or in the process of the run before.
AnalyzeStart(fresh) ==
    /\ run.pc \in {"idle", "done", "rejected"}
    /\ run.no < MaxRuns
    /\ run.no = 0 => fresh
    /\ run' = [IdleRun EXCEPT !.no = run.no + 1, !.pc = "file", !.fresh = fresh]
    /\ IF fresh
       THEN \* a new process: the module state of copilot.js as loaded (copilot.js:5-16)
            /\ copilotAvailable' = "null"
            /\ sessionCache' = <<>>
            /\ consecutiveFailures' = 0
            /\ circuitOpen' = FALSE
            /\ calls' = [c \in Slots |-> IdleCall]
            /\ batch' = IdleBatch
            /\ warnings' = [missing |-> 0, breaker |-> 0]
            /\ last' = IdleCall
            /\ hist' = [streak |-> 0, first |-> <<>>, latest |-> <<>>, notFound |-> FALSE]
       ELSE UNCHANGED clientVars
    /\ UNCHANGED <<input, outputs>>

\* A file loop that skips no file.
IsDeletedNever(file) == FALSE

\* smart-linter.js:79
IsDeleted(file) == file.type = "deleted"

\* smart-linter.js:78-85  the head of the file loop
AnalyzeFile ==
    /\ run.pc = "file"
    /\ run' = IF run.f > Len(input.files) THEN [run EXCEPT !.pc = "finish"]
              ELSE IF IsDeleted(CurrentFile) THEN [run EXCEPT !.f = @ + 1]
              ELSE [run EXCEPT !.findings = @ \o EnvFindings(CurrentFile),
                               !.base = Len(run.findings), !.h = 1, !.p = 1,
                               !.pc = IF CurrentFile.hunks = <<>> THEN "plugins"
                                      ELSE "hunk"]
    /\ UNCHANGED <<clientVars, input, outputs>>

\* smart-linter.js:87-165 and 282-288  one hunk up to the await of askCopilot
AnalyzeHunk ==
    /\ run.pc = "hunk"
    /\ LET found == run.findings \o LocalFindingsOf[<<CurrentFile.file, CurrentHunk>>]
       IN  IF Len(AddedLines(CurrentHunk)) >= MinCopilotLines
           THEN /\ run' = [run EXCEPT !.findings = found, !.pc = "await"]
                /\ Begin(1, ReviewPrompt(CodeSnippet(CurrentHunk)), DefaultRetries, 0, batch)
                /\ UNCHANGED <<copilotAvailable, sessionCache, consecutiveFailures,
                               circuitOpen, warnings>>
           ELSE /\ run' = AfterHunk([run EXCEPT !.findings = found])
                /\ UNCHANGED clientVars
    /\ UNCHANGED <<input, outputs>>

\* smart-linter.js:163-164 and 290-293  askCopilot has returned
AnalyzeCopilotReturn ==
    /\ run.pc = "await"
    /\ last.pc = "done"
    /\ run' = AfterHunk([run EXCEPT !.findings =
                  @ \o CopilotFindings(last.result, CurrentFile.file, CurrentHunk.newStart)])
    /\ UNCHANGED <<clientVars, input, outputs>>

\* smart-linter.js:170
FullContent(file) == JoinLines([h \in DOMAIN file.hunks |-> file.hunks[h].content])

\* smart-linter.js:168-176  one plugin of the plugin loop; runPlugin is awaited
\* without a try/catch, so what it throws rejects analyze.
AnalyzePlugin ==
    /\ run.pc = "plugins"
    /\ IF run.p > Len(input.plugins)
       THEN /\ run' = [run EXCEPT !.pc = "file", !.f = @ + 1]
            /\ UNCHANGED outputs
       ELSE LET plugin == input.plugins[run.p]
                r == runPlugin(plugin, CurrentFile.file, FullContent(CurrentFile))
            IN  IF ~r.settles
                THEN /\ run' = [run EXCEPT !.pc = "pluginWait"]
                     /\ UNCHANGED outputs
                ELSE IF r.threw
                THEN /\ run' = [run EXCEPT !.pc = "rejected", !.threw = TRUE]
                     /\ outputs' = Append(outputs, [ok |-> FALSE, result |-> <<>>])
                ELSE /\ run' = [run EXCEPT !.findings = @ \o r.findings, !.p = @ + 1,
                                           !.threw = @ \/ plugin.out.kind = "throw"]
                     /\ UNCHANGED outputs
    /\ UNCHANGED <<clientVars, input>>

\* smart-linter.js:178-193
AnalyzeFinish ==
    /\ run.pc = "finish"
    /\ LET result == FinalResult(run.findings, input.useML, input.classifier)
       IN  /\ run' = [run EXCEPT !.pc = "done", !.result = result]
           /\ outputs' = Append(outputs, [ok |-> TRUE, result |-> result])
    /\ UNCHANGED <<clientVars, input>>

\* The external process answers the call analyze is waiting for.
AnalyzeExecDone ==
    /\ run.pc = "await"
    /\ \E c \in Slots : ExecDone(c, Outcome(calls[c].prompt))
    /\ UNCHANGED analyzeVars

AnalyzeTimerFire ==
    /\ run.pc = "await"
    /\ \E c \in Slots : TimerFire(c)
    /\ UNCHANGED analyzeVars

-----------------------------------------------------------------------------
(* The client under sequential callers and one batch at a time *)

Init ==
    /\ ClientInit
    /\ input = [files |-> <<>>, plugins |-> <<>>, useML |-> FALSE, classifier |-> "report",
               oracle |-> [a |-> [ok |-> FALSE, err |-> ErrTimeout],
               b |-> [ok |-> FALSE, err |-> ErrTimeout]]]
    /\ run = IdleRun
    /\ outputs = <<>>

Next ==
    \/ (\E p \in Prompts, r \in RetryChoices : AskCopilot(p, r)) /\ UNCHANGED analyzeVars
    \/ ClearCopilotCache /\ UNCHANGED analyzeVars
    \/ (\E reqs \in BatchInputs, n \in 1..MaxConcurrency : AskCopilotBatch(reqs, n))
          /\ UNCHANGED analyzeVars
    \/ BatchDequeue /\ UNCHANGED analyzeVars
    \/ BatchReturn /\ UNCHANGED analyzeVars
    \/ (\E c \in Slots, out \in Outcomes : ExecDone(c, out)) /\ UNCHANGED analyzeVars
    \/ (\E c \in Slots : TimerFire(c)) /\ UNCHANGED analyzeVars

Spec == Init /\ [][Next]_vars

-----------------------------------------------------------------------------
(* The client under one caller that awaits each call before it makes the
   next and gives every call the same number of retries *)

InitSequential ==
    /\ ClientInit
    /\ input \in [retries : RetryChoices]
    /\ run = [since |-> 0]
    /\ outputs = <<>>

\* run.since counts the attempts, the entries of the retry loop's body
\* (copilot.js:56-58), since the last call that succeeded (copilot.js:58-64).
NextSequential ==
    /\ \/ \E p \in Prompts : AskCopilot(p, input.retries)
       \/ ClearCopilotCache
       \/ \E c \in Slots, out \in Outcomes : ExecDone(c, out)
       \/ \E c \in Slots : TimerFire(c)
    /\ run' = [since |->
                 IF last'.pc = "done" /\ last'.how = "success" THEN 0
                 ELSE IF \E c \in Slots : calls'[c].pc = "gh" /\ calls[c].pc \in {"idle", "sleep"}
                 THEN run.since + 1
                 ELSE run.since]
    /\ UNCHANGED <<input, outputs>>

SpecSequential == InitSequential /\ [][NextSequential]_vars

-----------------------------------------------------------------------------
(* analyze, run up to MaxRuns times on the same input *)

InitAnalyze ==
    /\ ClientInit
    /\ input \in AnalyzeInputs
    /\ run = IdleRun
    /\ outputs = <<>>

NextAnalyze ==
    \/ \E fresh \in BOOLEAN : AnalyzeStart(fresh)
    \/ AnalyzeFile
    \/ AnalyzeHunk
    \/ AnalyzeCopilotReturn
    \/ AnalyzePlugin
    \/ AnalyzeFinish
    \/ AnalyzeExecDone
    \/ AnalyzeTimerFire

SpecAnalyze == InitAnalyze /\ [][NextAnalyze]_vars

-----------------------------------------------------------------------------
(* Properties of the client *)

Returned == last.pc = "done"

\* The call returned from its synchronous part because the client was
\* disabled or the breaker open when it started.
StartedUsable == last.how \notin {"disabled", "open"}

\* C1: a call that starts after CIRCUIT_BREAKER_THRESHOLD consecutive calls
\* have each exhausted their retries, with no call returning a response in
\* between, returns null and never invokes the external process, whatever
\* its prompt (cached or not).
C1_OpenBreakerSkipsCall ==
    Returned /\ last.pre.streak >= CIRCUIT_BREAKER_THRESHOLD
        => last.result = Null /\ last.attempts = 0

C1_Witness ==
    /\ Returned
    /\ last.pre.streak >= CIRCUIT_BREAKER_THRESHOLD
    /\ last.attempts = 0
    /\ CacheKey(last.prompt) \in DOMAIN sessionCache

C4_NotFoundDisablesForGood ==
    /\ Returned /\ last.how = "notfound" => last.result = Null
    /\ Returned /\ last.pre.notFound => last.result = Null /\ last.attempts = 0

\* C5: once the circuit breaker is open, it is open in every later state.
C5_BreakerStaysOpen == [][circuitOpen => circuitOpen']_vars

C5_Witness ==
    /\ circuitOpen
    /\ Returned
    /\ last.how = "success"
    /\ consecutiveFailures = 0

IsSpaces(s) == \A i \in DOMAIN s : IsSpace(s[i])

\* t is raw without its leading and trailing white space.
IsTrimOf(t, raw) ==
    /\ t = <<>> \/ (~IsSpace(t[1]) /\ ~IsSpace(t[Len(t)]))
    /\ \E i \in 0..Len(raw) : \E j \in i..Len(raw) :
          /\ t = SubSeq(raw, i + 1, j)
          /\ IsSpaces(SubSeq(raw, 1, i))
          /\ IsSpaces(SubSeq(raw, j + 1, Len(raw)))

IsResult(v) == v = Null \/ \E raw \in RawResponses : IsTrimOf(v, raw)

\* C6: the map a batch returns has exactly the keys of its requests, each
\* mapped to a trimmed response or to null.
C6_BatchMapsEveryKey ==
    batch.pc = "done"
        => /\ DOMAIN batch.results
                = {RequestKey(batch.requests[i]) : i \in DOMAIN batch.requests}
           /\ \A k \in DOMAIN batch.results : IsResult(batch.results[k])

C6_Witness ==
    /\ batch.pc = "done"
    /\ \E k \in DOMAIN batch.results : batch.results[k] = Null
    /\ \E k \in DOMAIN batch.results : batch.results[k] # Null
    /\ hist.notFound

\* C7: whatever the transport does, a call ends by returning null or the
\* response without its surrounding white space.
C7_ReturnsTrimmedOrNull ==
    /\ \A c \in Slots : calls[c].pc \in {"idle", "gh", "copilot", "sleep"}
    /\ Returned => last.pc = "done" /\ IsResult(last.result)

C7_Witness ==
    /\ Returned
    /\ last.how = "success"
    /\ last.result = <<"n", "o">>
    /\ last.attempt = 1

\* The threshold docs/copilot-integration.md, README.md and
\* docs/troubleshooting.md give for the circuit breaker.
DocumentedThreshold == 5

\* C17: the breaker disables calls after DocumentedThreshold consecutive
\* failures: a call is skipped because the breaker is open only when at
\* least that many calls in a row had failed before it, and from then on
\* every call is skipped.
C17_BreakerOpensAtDocumentedThreshold ==
    /\ Returned /\ last.how = "open" => last.pre.streak >= DocumentedThreshold
    /\ Returned /\ last.pre.streak >= DocumentedThreshold => last.attempts = 0

\* C18: the circuit-breaker-open warning is emitted at most once, however
\* many calls fail after the breaker opened, calls of a batch that were in
\* flight at that moment included.
C18_BreakerWarningAtMostOnce == warnings.breaker <= 1

\* C19: once a not-found failure has disabled the client, the missing-tool
\* warning has been emitted exactly once, whatever the client's state was
\* before that failure.
C19_MissingToolWarnedOnce == hist.notFound => warnings.missing = 1

\* C23: once the breaker is open no attempt on the external process is
\* started any more, retry attempts of calls that were in flight when it
\* opened included.
C23_NoAttemptWhileOpen ==
    [][circuitOpen => \A c \in Slots : calls'[c].attempts <= calls[c].attempts]_vars

\* C24: two requests of one batch with the same prompt are never both
\* waiting for the external process: the prompt is sent to it once.
C24_SamePromptOneInvocation ==
    \A c, d \in Slots :
        c # d /\ InFlight(c) /\ InFlight(d) /\ calls[c].req # 0 /\ calls[d].req # 0
            => calls[c].prompt # calls[d].prompt

\* The requests of the running batch that have started and not yet resolved.
BatchInFlight == {c \in Slots : InFlight(c) /\ calls[c].req # 0}

\* C25: while askCopilotBatch runs with concurrency limit c, at most c of
\* its requests are in flight, retry backoff included, and a request that
\* is still queued while c are in flight has not started.
C25_AtMostConcurrencyInFlight ==
    batch.pc = "running" =>
        /\ Cardinality(BatchInFlight) <= batch.concurrency
        /\ \A c \in BatchInFlight : calls[c].req < batch.next

\* One request of a batch with limit 1 sleeps in its backoff while the
\* other is still queued.
C25_Witness ==
    /\ batch.pc = "running" /\ batch.concurrency = 1
    /\ Len(batch.requests) = 2 /\ batch.next = 2
    /\ \E c \in BatchInFlight : calls[c].pc = "sleep"

\* C26: completions of calls in flight together lose no update of the
\* breaker state: every call that exhausts its retries raises the
\* consecutive-failure counter by exactly one, and a counter at or above the
\* threshold implies an open breaker.
C26_NoLostBreakerUpdate ==
    /\ [](consecutiveFailures >= CIRCUIT_BREAKER_THRESHOLD => circuitOpen)
    /\ [][hist'.streak = hist.streak + 1
            => consecutiveFailures' = consecutiveFailures + 1]_vars

\* Two calls of one batch, both started before either failed, have both
\* exhausted their retries.
C26_Witness ==
    /\ batch.pc = "running" /\ batch.concurrency = 2
    /\ Returned /\ last.how = "exhausted" /\ last.req # 0
    /\ last.pre.streak = 0
    /\ hist.streak = 2
    /\ consecutiveFailures = 2

ReturnedAtOnce == last' # last /\ last'.pc = "done" /\ last'.attempts = 0

\* C28: the open/disabled test precedes the cache lookup.  A call that starts
\* while the breaker is open or the client disabled returns null and makes
\* no attempt, also for a cached prompt; a call that starts while neither
\* holds is answered from the cache without an attempt exactly when its
\* prompt's key is cached.
C28_OpenCheckBeforeCache ==
    /\ [][circuitOpen \/ copilotAvailable = "false"
            => /\ \A c \in Slots : calls[c].pc = "idle" => calls'[c].pc = "idle"
               /\ ReturnedAtOnce => last'.result = Null]_vars
    /\ [][~circuitOpen /\ copilotAvailable # "false"
            => /\ ReturnedAtOnce =>
                     /\ CacheKey(last'.prompt) \in DOMAIN sessionCache
                     /\ last'.result = sessionCache[CacheKey(last'.prompt)]
               /\ \A c \in Slots : calls[c].pc = "idle" /\ calls'[c].pc # "idle"
                     => CacheKey(calls'[c].prompt) \notin DOMAIN sessionCache]_vars

\* A call for a cached prompt returned null because the client was disabled.
C28_Witness ==
    /\ Returned /\ last.how = "disabled"
    /\ last.result = Null /\ last.attempts = 0
    /\ CacheKey(last.prompt) \in DOMAIN sessionCache

\* On this step a call for the prompt of the call that returned last ended
\* in the synchronous part of askCopilot, without an attempt.
SamePromptNotAttempted ==
    /\ last' # last /\ last'.pc = "done"
    /\ last'.how \in {"disabled", "open", "cache"}
    /\ last'.prompt = last.prompt

C37_AttemptsBoundedBetweenSuccesses ==
    /\ [](run.since <= CIRCUIT_BREAKER_THRESHOLD * (input.retries + 1))
    /\ [][run.since >= CIRCUIT_BREAKER_THRESHOLD * (input.retries + 1)
            => ~\E c \in Slots : calls'[c].pc = "gh" /\ calls[c].pc \in {"idle", "sleep"}]_vars

\* Three calls with the default three retries made twelve failed attempts;
\* the breaker is open and a later call returned without an attempt.
C37_Witness ==
    /\ input.retries = DefaultRetries
    /\ run.since = CIRCUIT_BREAKER_THRESHOLD * (DefaultRetries + 1)
    /\ circuitOpen
    /\ Returned /\ last.how = "open" /\ last.attempts = 0

-----------------------------------------------------------------------------
(* Properties of analyze *)

\* The key the specification names: file, line, first 50 characters of message.
FindingKey(f) == <<f.file, f.line, Slice(f.message, DedupPrefixLen)>>

NoDuplicateKeys(fs) ==
    \A i, j \in DOMAIN fs : i # j => FindingKey(fs[i]) # FindingKey(fs[j])

\* C8: whatever the files, the layers, the plugins and the external process
\* produced, the list analyze returns has no two findings with the same
\* file, line and first 50 characters of message.
C8_NoDuplicateKeys ==
    \A k \in DOMAIN outputs : outputs[k].ok => NoDuplicateKeys(outputs[k].result)

\* A run returned two findings or more after it had dropped one whose message
\* differs from a kept one only after the 50th character.
C8_Witness ==
    /\ run.pc = "done"
    /\ ~input.useML
    /\ Len(run.result) >= 2
    /\ \E i, j \in DOMAIN run.findings :
          /\ i < j
          /\ FindingKey(run.findings[i]) = FindingKey(run.findings[j])
          /\ run.findings[i].message # run.findings[j].message

\* C9: two runs of analyze on the same files, without the ML filter and with
\* the external process giving the same outcome to the same prompt, return
\* the same list, also when the second run follows the first in one process.
C9_SecondRunReturnsTheSame ==
    Len(outputs) = 2 /\ ~input.useML => outputs[1] = outputs[2]

\* C10: when a plugin's analyze function has thrown for a file, analyze still
\* returns, and every finding of the other plugins and of the built-in layers
\* is represented in what it returns.
C10_PluginThrowStaysLocal ==
    run.pc \in {"done", "rejected"} /\ run.threw /\ ~input.useML =>
        /\ run.pc = "done"
        /\ \A i \in DOMAIN run.findings :
              \E j \in DOMAIN run.result :
                  FindingKey(run.result[j]) = FindingKey(run.findings[i])

\* With a new process for every run the two results agree.
FreshRunsAgree ==
    Len(outputs) = 2 /\ ~input.useML /\ run.fresh => outputs[1] = outputs[2]

\* C11: analyze never throws because of a failure inside a layer (a plugin
\* that throws, a failing external call, a failing classifier): every call
\* of analyze returns a list.
C11_AnalyzeNeverRejects ==
    /\ run.pc # "rejected"
    /\ \A k \in DOMAIN outputs : outputs[k].ok

\* The place of a layer in the order heuristic, entropy, syntax, external, plugin.
LayerRank(source) ==
    CASE source = "heuristic" -> 1
      [] source = "entropy" -> 2
      [] source = "ast" -> 3
      [] source = "copilot" -> 4
      [] source = "plugin" -> 5

\* C13: before deduplication the findings accumulated for one file are in
\* layer order: heuristic, then entropy, then syntax, then external, then
\* plugin findings, whatever the number of hunks of the file.
C13_LayerOrderWithinFile ==
    \A i, j \in (run.base + 1)..Len(run.findings) :
        i < j => LayerRank(run.findings[i].source) <= LayerRank(run.findings[j].source)

\* The label the classifier gives a finding ("throw" when it fails).
Predicted(finding) == Categorize(input.classifier, buildFeatureText(finding))

LocalSources == {"heuristic", "entropy", "ast", "plugin"}

\* C15: a completed analyze whose local layers (heuristic, entropy, syntax,
\* plugin) emitted at least one finding does not return an empty list, also
\* with false-positive filtering enabled.
C15_LocalFindingsAreReturned ==
    run.pc = "done" /\ (\E k \in DOMAIN run.findings : run.findings[k].source \in LocalSources)
        => run.result # <<>>

\* C16: a plugin call is bounded: while analyze waits for a plugin whose
\* analyze function has not settled, some step that ends the wait (a timeout)
\* is still to come, so the run goes on to finish.
C16_PluginWaitIsBounded ==
    run.pc = "pluginWait" => ENABLED NextAnalyze

\* C20: analyze given zero files returns an empty list, and no finding of
\* any layer, collected or returned, belongs to a file whose change kind is
\* 'deleted': every finding names a file of the input that is not deleted.
C20_NoFilesNoDeletedFindings ==
    /\ run.no > 0 /\ input.files = <<>> =>
          /\ run.findings = <<>>
          /\ run.pc \in {"file", "finish", "done"}
          /\ \A k \in DOMAIN outputs : outputs[k].ok /\ outputs[k].result = <<>>
    /\ \A k \in DOMAIN run.findings :
          \E i \in DOMAIN input.files :
              /\ input.files[i].type # "deleted"
              /\ input.files[i].file = run.findings[k].file
    /\ \A k \in DOMAIN outputs : \A n \in DOMAIN outputs[k].result :
          \E i \in DOMAIN input.files :
              /\ input.files[i].type # "deleted"
              /\ input.files[i].file = outputs[k].result[n].file

\* A run with plugins over a deleted file followed by another file returned
\* findings, none of them for the deleted file.
C20_Witness ==
    /\ run.pc = "done"
    /\ Len(input.files) = 2 /\ input.files[1].type = "deleted"
    /\ input.plugins # <<>>
    /\ run.result # <<>>
    /\ \E k \in DOMAIN run.result : run.result[k].source = "plugin"

\* The findings analyze returned for the line HunkS adds to src/a.js.
SecretLineFindings ==
    SelectSeq(run.result, LAMBDA f : f.file = FileA.file /\ f.line = HunkS.newStart)

\* C21: for the hunk whose only added line is
\* const apiKey = "ghp_aaaaaaaaaaaaaaaaaaaa" in a .js file, analyze without
\* the false-positive filter returns exactly one finding at that line; it is
\* critical and its source is entropy or heuristic.
C21_OneCriticalFindingForSecret ==
    run.pc = "done" /\ ~input.useML /\ (\E i \in DOMAIN input.files : input.files[i] = FileA)
        => /\ Len(SecretLineFindings) = 1
           /\ SecretLineFindings[1].severity = "critical"
           /\ SecretLineFindings[1].source \in {"entropy", "heuristic"}

\* C22: the response analyze parses into the external findings of a hunk is
\* the external process's response to that hunk's own added-line text, never
\* a response produced for another hunk's text.
C22_ResponseIsForThisHunk ==
    run.pc = "await" /\ last.pc = "done" /\ last.result # Null =>
        LET own == Outcome(ReviewPrompt(CodeSnippet(CurrentHunk)))
        IN  own.ok /\ last.result = SuccessValue(own.stdout)

\* The positions of the collected findings that no earlier position shares
\* its (file, line, message prefix) key with.
KeptIndices ==
    {i \in DOMAIN run.findings :
        \A j \in 1..(i - 1) : FindingKey(run.findings[j]) # FindingKey(run.findings[i])}

\* C29: deduplicateFindings keeps exactly the first occurrence of every
\* (file, line, 50-character message prefix) key, in emission order: a
\* finding is removed only if an earlier one has the same key, and the n-th
\* survivor is the finding at the n-th kept position.
C29_FirstOccurrencesInOrder ==
    run.pc \in {"finish", "done"} =>
        LET kept == deduplicateFindings(run.findings)
        IN  /\ Len(kept) = Cardinality(KeptIndices)
            /\ \A i \in KeptIndices :
                  kept[Cardinality({j \in KeptIndices : j <= i})] = run.findings[i]

\* A later finding was removed for an earlier one's key, with a finding of
\* another key between the two, and findings after the removed one survive.
C29_Witness ==
    /\ run.pc = "done"
    /\ \E i, j, k \in DOMAIN run.findings :
          /\ i < j /\ j < k
          /\ FindingKey(run.findings[i]) = FindingKey(run.findings[k])
          /\ FindingKey(run.findings[j]) # FindingKey(run.findings[i])
          /\ \E n \in KeptIndices : n > k

\* What the plugin loop is about to call runPlugin with.
NextPlugin == input.plugins[run.p]

\* C30: runPlugin never throws, and it returns no finding when the plugin's
\* analyze throws, returns something that is no array, or returns an array
\* with a malformed entry (a null entry, or an entry without a message).
C30_RunPluginIsolatesFailures ==
    run.pc = "plugins" /\ run.p <= Len(input.plugins) =>
        LET r == runPlugin(NextPlugin, CurrentFile.file, FullContent(CurrentFile))
            out == NextPlugin.out
        IN  /\ ~r.threw
            /\ \/ out.kind \in {"throw", "value"}
               \/ out.kind = "array" /\ \E k \in DOMAIN out.items :
                      out.items[k].nullish \/ out.items[k].message = Undefined
               => r.findings = <<>>

\* C35: in a run without the false-positive filter, for every file that is
\* not deleted and whose path contains '.env' and not '.example', every added
\* line whose text after the diff marker is KEY=VALUE with a secret-name KEY
\* and a VALUE that is neither empty nor a placeholder has a critical finding
\* at its line in the result.
C35_EnvSecretLineIsCritical ==
    run.pc = "done" /\ ~input.useML =>
        \A i \in DOMAIN input.files :
            LET file == input.files[i]
            IN  /\ file.type # "deleted"
                /\ Includes(file.file, <<".", "e", "n", "v">>)
                /\ ~Includes(file.file, <<".", "e", "x", "a", "m", "p", "l", "e">>)
                => \A h \in DOMAIN file.hunks :
                      \A c \in DOMAIN file.hunks[h].changes :
                          LET change == file.hunks[h].changes[c]
                          IN  /\ change.type = "add"
                              /\ Head(change.content) = "+"
                              /\ EnvIsSecret(Tail(change.content))
                              => \E k \in DOMAIN run.result :
                                    /\ run.result[k].file = file.file
                                    /\ run.result[k].line = change.ln
                                    /\ run.result[k].severity = "critical"

-----------------------------------------------------------------------------
(* The check command (commands/check.js), as far as it uses the client *)

\* What `reviewpilot check` asks the client, in order: the impact summary of
\* processDiff (diff-processor.js:81), the dependency analysis of
\* gatherContext (context-collector.js:45) and the review of a hunk by
\* analyze (smart-linter.js:283).  The first two prompts are cut after their
\* first words, which already tell them apart.
CheckPrompts ==
    <<<<"A", "n", "a", "l", "y", "z", "e", " ", "t", "h", "i", "s", " ", "s", "e", "t", " ",
        "o", "f", " ", "c", "o", "d", "e", " ", "c", "h", "a", "n", "g", "e", "s">>,
      <<"F", "i", "n", "d", " ", "a", "l", "l", " ", "f", "i", "l", "e", "s", " ", "t", "h",
        "a", "t", " ", "d", "e", "p", "e", "n", "d", " ", "o", "n">>,
      ReviewPrompt(CodeSnippet(HunkA))>>

\* check.js:21-40  checkCommand starts; without --no-copilot it probes the
\* client first (copilot.js:138-143).
CheckStart ==
    /\ run.pc = "idle"
    /\ run' = [run EXCEPT !.pc = IF input.copilot THEN "probeGh" ELSE "step"]
    /\ UNCHANGED <<clientVars, input, outputs>>

\* copilot.js:142-153  isCopilotAvailable: `gh copilot -- --version`, then
\* `copilot --version`, answers.
CheckProbeDone(ok) ==
    /\ run.pc \in {"probeGh", "probeCopilot"}
    /\ IF ok \/ run.pc = "probeCopilot"
       THEN /\ copilotAvailable' = IF ok THEN "true" ELSE "false"
            /\ run' = [run EXCEPT !.pc = "step"]
       ELSE /\ run' = [run EXCEPT !.pc = "probeCopilot"]
            /\ UNCHANGED copilotAvailable
    /\ UNCHANGED <<sessionCache, consecutiveFailures, circuitOpen, calls, batch, warnings,
                   last, hist, input, outputs>>

\* check.js:64, 81 and 96  the next step of the pipeline awaits askCopilot
CheckAsk ==
    /\ run.pc = "step"
    /\ run.f <= Len(CheckPrompts)
    /\ run' = [run EXCEPT !.pc = "await"]
    /\ Begin(1, CheckPrompts[run.f], DefaultRetries, 0, batch)
    /\ UNCHANGED <<copilotAvailable, sessionCache, consecutiveFailures, circuitOpen,
                   warnings, input, outputs>>

\* askCopilot has returned to the step that awaited it
CheckReturn ==
    /\ run.pc = "await"
    /\ last.pc = "done"
    /\ run' = [run EXCEPT !.f = @ + 1,
                          !.pc = IF run.f < Len(CheckPrompts) THEN "step" ELSE "done"]
    /\ UNCHANGED <<clientVars, input, outputs>>

CheckExecDone ==
    /\ \E c \in Slots :
          \E out \in {[ok |-> TRUE, stdout |-> <<"o", "k">>], [ok |-> FALSE, err |-> ErrTimeout],
                      [ok |-> FALSE, err |-> ErrEnoent]} : ExecDone(c, out)
    /\ UNCHANGED analyzeVars

CheckTimerFire ==
    /\ \E c \in Slots : TimerFire(c)
    /\ UNCHANGED analyzeVars

\* options.copilot is false when --no-copilot was given (bin/reviewpilot.js).
InitCheck ==
    /\ ClientInit
    /\ input \in [copilot : BOOLEAN]
    /\ run = IdleRun
    /\ outputs = <<>>

NextCheck ==
    \/ CheckStart
    \/ \E ok \in BOOLEAN : CheckProbeDone(ok)
    \/ CheckAsk
    \/ CheckReturn
    \/ CheckExecDone
    \/ CheckTimerFire

SpecCheck == InitCheck /\ [][NextCheck]_vars

-----------------------------------------------------------------------------
(* Properties of the check command *)

\* C12: when check runs with --no-copilot, no external Copilot process is
\* started during the whole run: no call is ever waiting for one, and every
\* call that returned made no attempt.
C12_NoCopilotSwitchSkipsClient ==
    run.pc # "idle" /\ ~input.copilot =>
        /\ \A c \in Slots : calls[c].pc = "idle"
        /\ Returned => last.attempts = 0

-----------------------------------------------------------------------------
(* The set-up of analyze (smart-linter.js:59-76): loadPlugins of
   plugin-loader.js and the FalsePositiveFilter of false-positive-filter.js *)

MaxRules == 2
MaxLearn == 2

\* part_004:112-117
validatePlugin(plugin) ==
    /\ plugin.object
    /\ plugin.name # Undefined /\ plugin.name # <<>>
    /\ plugin.analyze

\* part_004:69-98  the loop over the rule files, from the i-th on.  The inner
\* catch reads err.message: when the thrown value is null or undefined that
\* read throws a TypeError inside the outer try, whose catch ends the loop.
RECURSIVE LoadFrom(_, _, _)
LoadFrom(files, i, plugins) ==
    IF i > Len(files) THEN plugins
    ELSE LET m == files[i]
         IN  IF m.kind = "throw" /\ m.nullish THEN plugins
             ELSE IF m.kind = "instance" /\ validatePlugin(m.instance)
             THEN LoadFrom(files, i + 1, Append(plugins, m.instance))
             ELSE LoadFrom(files, i + 1, plugins)

\* part_004:57-104.  dir is the plugin directory: it exists or not, readdirSync
\* lists it or throws, and entries are its files in the order readdirSync
\* gives them.
loadPlugins(dir) ==
    IF ~dir.exists \/ ~dir.readable THEN <<>>
    ELSE LoadFrom(SelectSeq(dir.entries,
                            LAMBDA f : EndsWith(f.file, <<".", "j", "s">>)
                                       \/ EndsWith(f.file, <<".", "m", "j", "s">>)),
                  1, <<>>)

\* The rule files of the model.  What a rule file's module gives the loader:
\* importing it or constructing its class throws (an Error, or a null or
\* undefined value), its export is neither a class nor an object, or there is
\* an instance, the object it exports or the object its class constructs.  Of
\* an instance, name is Undefined when it has no name or one that is no string,
\* severity is "" when it declares none, and analyze tells whether its analyze
\* is a function.
RuleFiles ==
    LET RuleFile(file, kind, nullish, instance) ==
            [file |-> file, kind |-> kind, nullish |-> nullish, instance |-> instance]
        Instance(name, severity, analyze, out) ==
            [object |-> TRUE, name |-> name, severity |-> severity, analyze |-> analyze,
             out |-> out]
        NoInstance == Instance(Undefined, "", FALSE, PluginOut("value", FALSE, <<>>))
        items == <<PluginItem(2, <<"r", "u", "n", "(", ")", " ", "i", "s", " ", "b", "a", "n", "n", "e", "d", " ", "h", "e", "r", "e">>, ""),
                   PluginItem(0, <<"n", "o", " ", "m", "o", "m", "e", "n", "t", ".", "j", "s">>, "error")>>
        good == Instance(<<"n", "o", "-", "r", "u", "n">>, "info", TRUE, PluginOut("array", FALSE, items))
        plain == Instance(<<"p", "l", "a", "i", "n">>, "", TRUE, PluginOut("array", FALSE, items))
    IN  {RuleFile(<<"n", "o", "-", "r", "u", "n", ".", "j", "s">>, "instance", FALSE, good),
         RuleFile(<<"p", "l", "a", "i", "n", ".", "m", "j", "s">>, "instance", FALSE, plain),
         RuleFile(<<"n", "o", "t", "e", "s", ".", "t", "x", "t">>, "instance", FALSE, good),
         RuleFile(<<"c", "r", "a", "s", "h", ".", "j", "s">>, "throw", FALSE, NoInstance),
         RuleFile(<<"r", "e", "j", "e", "c", "t", ".", "j", "s">>, "throw", TRUE, NoInstance),
         RuleFile(<<"n", "u", "m", "b", "e", "r", ".", "j", "s">>, "primitive", FALSE, NoInstance),
         RuleFile(<<"n", "o", "n", "a", "m", "e", ".", "j", "s">>, "instance", FALSE,
                  Instance(<<>>, "", TRUE, PluginOut("array", FALSE, items))),
         RuleFile(<<"u", "n", "t", "i", "t", "l", "e", "d", ".", "j", "s">>, "instance", FALSE,
                  Instance(Undefined, "", TRUE, PluginOut("array", FALSE, items))),
         RuleFile(<<"d", "a", "t", "a", ".", "j", "s">>, "instance", FALSE,
                  Instance(<<"d", "a", "t", "a">>, "warning", FALSE, PluginOut("value", FALSE, <<>>)))}

\* false-positive-filter.js:46-82  the examples preTrainDefaults teaches, in
\* its order.  A classifier of the bayes package is modelled by the examples
\* it has learned, in order; Bayes() has learned none.
SeedExamples ==
    <<<<<<"c", "o", "n", "s", "o", "l", "e", ".", "l", "o", "g", "(", "s", "e", "c", "r", "e", "t", "K", "e", "y", ")">>, "report">>,
       <<<<"c", "o", "n", "s", "o", "l", "e", ".", "l", "o", "g", "(", "p", "a", "s", "s", "w", "o", "r", "d", ")">>, "report">>,
       <<<<"c", "o", "n", "s", "o", "l", "e", ".", "l", "o", "g", "(", "a", "p", "i", "T", "o", "k", "e", "n", ")">>, "report">>,
       <<<<"c", "o", "n", "s", "t", " ", "p", "a", "s", "s", "w", "o", "r", "d", " ", "=", " ", "\"", "a", "d", "m", "i", "n", "1", "2", "3", "\"">>, "report">>,
       <<<<"c", "o", "n", "s", "t", " ", "a", "p", "i", "K", "e", "y", " ", "=", " ", "\"", "s", "k", "-", "l", "i", "v", "e", "-", "a", "b", "c", "1", "2", "3", "d", "e", "f", "4", "5", "6", "\"">>, "report">>,
       <<<<"e", "v", "a", "l", "(", "u", "s", "e", "r", "I", "n", "p", "u", "t", ")">>, "report">>,
       <<<<"e", "v", "a", "l", "(", "r", "e", "q", "u", "e", "s", "t", "B", "o", "d", "y", ")">>, "report">>,
       <<<<"i", "n", "n", "e", "r", "H", "T", "M", "L", " ", "=", " ", "u", "s", "e", "r", "D", "a", "t", "a">>, "report">>,
       <<<<"d", "e", "b", "u", "g", "g", "e", "r", ";", " ", "/", "/", " ", "l", "e", "f", "t", " ", "i", "n", " ", "p", "r", "o", "d", "u", "c", "t", "i", "o", "n">>, "report">>,
       <<<<"c", "o", "n", "s", "o", "l", "e", ".", "l", "o", "g", "(", "\"", "S", "e", "r", "v", "e", "r", " ", "s", "t", "a", "r", "t", "e", "d", " ", "o", "n", " ", "p", "o", "r", "t", "\"", ",", " ", "p", "o", "r", "t", ")">>, "skip">>,
       <<<<"c", "o", "n", "s", "o", "l", "e", ".", "l", "o", "g", "(", "\"", "S", "t", "a", "r", "t", "i", "n", "g", " ", "m", "i", "g", "r", "a", "t", "i", "o", "n", ".", ".", ".", "\"", ")">>, "skip">>,
       <<<<"c", "o", "n", "s", "o", "l", "e", ".", "l", "o", "g", "(", "J", "S", "O", "N", ".", "s", "t", "r", "i", "n", "g", "i", "f", "y", "(", "c", "o", "n", "f", "i", "g", ",", " ", "n", "u", "l", "l", ",", " ", "2", ")", ")">>, "skip">>,
       <<<<"c", "o", "n", "s", "o", "l", "e", ".", "l", "o", "g", "(", "\"", "T", "e", "s", "t", " ", "p", "a", "s", "s", "e", "d", "\"", ")">>, "skip">>,
       <<<<"c", "o", "n", "s", "t", " ", "p", "a", "s", "s", "w", "o", "r", "d", " ", "=", " ", "\"", "t", "e", "s", "t", "_", "p", "a", "s", "s", "w", "o", "r", "d", "\"", " ", "/", "/", " ", "t", "e", "s", "t", " ", "f", "i", "x", "t", "u", "r", "e">>, "skip">>,
       <<<<"c", "o", "n", "s", "t", " ", "m", "o", "c", "k", "A", "p", "i", "K", "e", "y", " ", "=", " ", "\"", "t", "e", "s", "t", "-", "k", "e", "y", "-", "f", "o", "r", "-", "u", "n", "i", "t", "-", "t", "e", "s", "t", "s", "\"">>, "skip">>,
       <<<<"p", "a", "s", "s", "w", "o", "r", "d", ":", " ", "p", "r", "o", "c", "e", "s", "s", ".", "e", "n", "v", ".", "D", "B", "_", "P", "A", "S", "S", "W", "O", "R", "D">>, "skip">>,
       <<<<"a", "p", "i", "K", "e", "y", ":", " ", "c", "o", "n", "f", "i", "g", ".", "g", "e", "t", "(", "\"", "a", "p", "i", "K", "e", "y", "\"", ")">>, "skip">>,
       <<<<"i", "f", " ", "(", "D", "E", "B", "U", "G", ")", " ", "c", "o", "n", "s", "o", "l", "e", ".", "l", "o", "g", "(", "d", "a", "t", "a", ")">>, "skip">>,
       <<<<"/", "/", " ", "T", "O", "D", "O", ":", " ", "r", "e", "f", "a", "c", "t", "o", "r", " ", "t", "h", "i", "s", " ", "m", "o", "d", "u", "l", "e">>, "skip">>,
       <<<<"/", "/", " ", "F", "I", "X", "M", "E", ":", " ", "k", "n", "o", "w", "n", " ", "i", "s", "s", "u", "e", " ", "#", "1", "2", "3">>, "skip">>>>

\* classifier.toJson() as written to classifier.json, and what is on disk
\* otherwise: no file, or a file Bayes.fromJson or readFileSync throws on.
\* ([kind |-> "absent"] and [kind |-> "corrupt"], with an empty state).
toJson(classifier) == [kind |-> "json", state |-> classifier]

\* load keeping a corrupt file's classifier marked as loaded
loadTrusting(filter, disk) ==
    IF disk.kind = "absent" THEN filter ELSE [classifier |-> disk.state, loaded |-> TRUE]

\* false-positive-filter.js:135-147
load(filter, disk) ==
    IF disk.kind = "absent" THEN filter
    ELSE IF disk.kind = "json" THEN [classifier |-> disk.state, loaded |-> TRUE]
    ELSE [classifier |-> <<>>, loaded |-> FALSE]

\* false-positive-filter.js:33-41 with preTrainDefaults (46-82)
initialize(filter, disk) ==
    LET l == load(filter, disk)
    IN  IF ~l.loaded THEN [l EXCEPT !.classifier = @ \o SeedExamples] ELSE l

\* false-positive-filter.js:122-130  save: written, or mkdirSync or
\* writeFileSync throws, leaving the file as it was ("fail") or cut short
\* ("partial"); the catch swallows the error.
save(filter, disk, outcome) ==
    CASE outcome = "ok" -> toJson(filter.classifier)
      [] outcome = "fail" -> disk
      [] outcome = "partial" -> [kind |-> "corrupt", state |-> <<>>]

\* learn that gives up the update when the model cannot be written
learnAllOrNothing(filter, disk, finding, isRealIssue, outcome) ==
    LET f == [filter EXCEPT !.classifier =
                  Append(@, <<buildFeatureText(finding),
                              IF isRealIssue THEN "report" ELSE "skip">>)]
    IN  IF outcome = "ok" THEN [filter |-> f, disk |-> save(f, disk, outcome)]
        ELSE [filter |-> filter, disk |-> disk]

\* false-positive-filter.js:113-117
learn(filter, disk, finding, isRealIssue, outcome) ==
    LET f == [filter EXCEPT !.classifier =
                  Append(@, <<buildFeatureText(finding),
                              IF isRealIssue THEN "report" ELSE "skip">>)]
    IN  [filter |-> f, disk |-> save(f, disk, outcome)]

\* smart-linter.js:59-65  plugins = await loadPlugins(repoRoot)
SetupLoadPlugins ==
    /\ run.pc = "load"
    /\ outputs' = loadPlugins(input.dir)
    /\ run' = [run EXCEPT !.pc = "filter"]
    /\ UNCHANGED <<clientVars, input>>

\* smart-linter.js:67-76  fpFilter = new FalsePositiveFilter();
\* await fpFilter.initialize()
SetupFilter ==
    /\ run.pc = "filter"
    /\ run' = [run EXCEPT !.filter = initialize([classifier |-> <<>>, loaded |-> FALSE],
                                                 run.disk),
                          !.pc = "ready",
                          !.call = [made |-> FALSE, finding |-> Finding(<<>>, NoLine, "", <<>>, ""),
                                    isRealIssue |-> FALSE, outcome |-> "", before |-> <<>>]]
    /\ UNCHANGED <<clientVars, input, outputs>>

\* smart-linter.js:168-176  the next loaded plugin runs on a file
SetupRunPlugin ==
    /\ run.pc = "ready"
    /\ run.p <= Len(outputs)
    /\ LET r == runPlugin(outputs[run.p], FileA.file, FullContent(FileA))
       IN  run' = [run EXCEPT !.findings = @ \o r.findings, !.p = @ + 1]
    /\ UNCHANGED <<clientVars, input, outputs>>

\* false-positive-filter.js:113-117  learn(finding, isRealIssue) is called,
\* at most MaxLearn times in all, once the plugins have run
FilterLearn(finding, isRealIssue, outcome) ==
    /\ run.pc = "ready"
    /\ run.p > Len(outputs)
    /\ run.learned < MaxLearn
    /\ LET r == learn(run.filter, run.disk, finding, isRealIssue, outcome)
       IN  run' = [run EXCEPT !.filter = r.filter, !.disk = r.disk, !.learned = @ + 1,
                              !.call = [made |-> TRUE, finding |-> finding,
                                        isRealIssue |-> isRealIssue, outcome |-> outcome,
                                        before |-> run.filter.classifier]]
    /\ UNCHANGED <<clientVars, input, outputs>>

\* The next run of analyze sets up again, from the disk the run before left.
SetupAgain ==
    /\ run.pc = "ready"
    /\ run.no < MaxRuns
    /\ run' = [run EXCEPT !.no = @ + 1, !.pc = "load", !.p = 1, !.findings = <<>>]
    /\ UNCHANGED <<clientVars, input, outputs>>

\* The plugin directory is absent, unreadable, or holds up to MaxRules files
\* of different names.  On disk when the first run starts is no model file,
\* a corrupt one, an empty model, or the model of a user who taught one
\* example.
InitSetup ==
    /\ ClientInit
    /\ input \in
          [dir : {[exists |-> FALSE, readable |-> FALSE, entries |-> <<>>],
                  [exists |-> TRUE, readable |-> FALSE, entries |-> <<>>]}
                 \cup {[exists |-> TRUE, readable |-> TRUE, entries |-> e] :
                         e \in {s \in UNION {[1..n -> RuleFiles] : n \in 0..MaxRules} :
                                  \A i, j \in DOMAIN s : i # j => s[i].file # s[j].file}},
           disk : {[kind |-> "absent", state |-> <<>>], [kind |-> "corrupt", state |-> <<>>],
                   toJson(<<>>),
                   toJson(<<<<<<"e", "v", "a", "l", "(", ")", " ", "u", "s", "a", "g", "e">>, "skip">>>>)}]
    /\ run = [no |-> 1, pc |-> "load", p |-> 1, findings |-> <<>>,
              filter |-> [classifier |-> <<>>, loaded |-> FALSE], disk |-> input.disk,
              learned |-> 0,
              call |-> [made |-> FALSE, finding |-> Finding(<<>>, NoLine, "", <<>>, ""),
                        isRealIssue |-> FALSE, outcome |-> "", before |-> <<>>]]
    /\ outputs = <<>>

NextSetup ==
    \/ SetupLoadPlugins
    \/ SetupFilter
    \/ SetupRunPlugin
    \/ \E finding \in {Finding(FileA.file, 1, "warning",
                                  <<"C", "o", "n", "t", "a", "i", "n", "s", " ", "T", "O", "D", "O", " ", "c", "o", "m", "m", "e", "n", "t">>,
                                  "heuristic"),
                          Finding(<<>>, NoLine, "error", <<"e", "v", "a", "l", "(", ")", " ", "u", "s", "a", "g", "e">>, "heuristic")},
          isRealIssue \in BOOLEAN, outcome \in {"ok", "fail", "partial"} :
          FilterLearn(finding, isRealIssue, outcome)
    \/ SetupAgain

SpecSetup == InitSetup /\ [][NextSetup]_vars

-----------------------------------------------------------------------------
(* Properties of the set-up *)

\* C31: every finding runPlugin returns carries the file it was given, the
\* source 'plugin', a message that starts with '[<plugin name>] ', and as
\* severity the entry's own severity when it has one, else the severity the
\* plugin declares, else 'warning'.
C31_PluginFindingFormat ==
    [][run.pc = "ready" /\ run'.pc = "ready" /\ run'.p = run.p + 1 =>
        LET plugin == outputs[run.p]
            items == plugin.out.items
            new == SubSeq(run'.findings, Len(run.findings) + 1, Len(run'.findings))
        IN  /\ Len(new) = Len(items)
            /\ \A k \in DOMAIN new :
                  /\ new[k].file = FileA.file
                  /\ new[k].source = "plugin"
                  /\ StartsWith(new[k].message, <<"[">> \o plugin.name \o <<"]", " ">>)
                  /\ new[k].severity =
                        IF items[k].severity # "" THEN items[k].severity
                        ELSE IF plugin.severity # "" THEN plugin.severity
                        ELSE "warning"]_vars

\* Two plugins have run, one declaring a severity and one declaring none, on
\* entries with and without a severity of their own.
C31_Witness ==
    /\ run.pc = "ready" /\ run.p = 3
    /\ {run.findings[k].severity : k \in DOMAIN run.findings} = {"info", "warning", "error"}

\* C32: loadPlugins returns only instances that pass validatePlugin, returns
\* the empty list when the directory is missing, and returns the instance of
\* every rule file of the directory that loads and validates, whatever the
\* other rule files do.
C32_LoadPluginsSkipsOnlyBadRules ==
    run.pc # "load" =>
        /\ \A k \in DOMAIN outputs : validatePlugin(outputs[k])
        /\ ~input.dir.exists => outputs = <<>>
        /\ \A i \in DOMAIN input.dir.entries :
              LET f == input.dir.entries[i]
              IN  /\ EndsWith(f.file, <<".", "j", "s">>) \/ EndsWith(f.file, <<".", "m", "j", "s">>)
                  /\ f.kind = "instance"
                  /\ validatePlugin(f.instance)
                  => \E k \in DOMAIN outputs : outputs[k] = f.instance

\* C33: after initialize, and before learn is called, the classifier is
\* the model on disk with nothing added when the model file deserialises, and
\* otherwise (no file, or a corrupt one) a classifier that has learned exactly
\* the seed examples.
C33_InitializeLoadsOrSeeds ==
    run.pc = "ready" /\ ~run.call.made =>
        IF run.disk.kind = "json"
        THEN run.filter.loaded /\ run.filter.classifier = run.disk.state
        ELSE /\ ~run.filter.loaded
             /\ run.filter.classifier = SeedExamples
             /\ run.filter.classifier # <<>>

\* A second run initializes on the corrupt file a failed save of the first
\* run left where a model had been.
C33_Witness ==
    /\ run.pc = "ready" /\ ~run.call.made /\ run.no = 2
    /\ input.disk.kind = "json" /\ run.disk.kind = "corrupt"
    /\ run.filter.classifier = SeedExamples

\* C34: after learn(finding, isRealIssue) the classifier has learned the
\* finding's text once more, as 'report' when isRealIssue and as 'skip'
\* otherwise, whether or not the model could be written; when it could, the
\* file holds the updated model.
C34_LearnKeepsUpdate ==
    run.call.made =>
        /\ run.filter.classifier =
              Append(run.call.before,
                     <<buildFeatureText(run.call.finding),
                       IF run.call.isRealIssue THEN "report" ELSE "skip">>)
        /\ run.call.outcome = "ok" => run.disk = toJson(run.filter.classifier)

\* learn has returned after a save that failed
C34_Witness ==
    /\ run.call.made /\ run.call.outcome = "fail" /\ ~run.call.isRealIssue
    /\ run.pc = "ready"
    /\ Len(run.filter.classifier) = Len(run.call.before) + 1

====
